---------------------------- MODULE Spec2Model ----------------------------
(***************************************************************************)
(* Transport core of the kurento-go client: one websocket connection, a    *)
(* receive loop (handleResponse), an event-dispatch loop (handleEvents),   *)
(* and any number of caller tasks running Connection.Request, plus         *)
(* application tasks calling Connection.Subscribe / Unsubscribe.           *)
(*                                                                         *)
(* The module models the atomic-id revision of the connection              *)
(* (src/unnamed/part_001, lines 273-586).  Every shared-memory access of   *)
(* a task is one step; statements that touch only task-local data are      *)
(* folded into the neighbouring step.                                      *)
(*                                                                         *)
(* A Go value that may be nil (a *Error, a map) is modelled as a sequence  *)
(* of length 0 (nil) or 1 (<<v>>).  The result of a type assertion         *)
(* x.(T) is modelled the same way: << >> when the assertion fails.         *)
(***************************************************************************)
EXTENDS Integers, Sequences, FiniteSets, TLC

\* ------------------------------------------------------------------ bounds
\* Total number of Request calls started on the connection.
MaxCalls == 2
\* Total number of onEvent frames the receive loop accepts.
MaxEvents == 1
\* Total number of Connection.Subscribe calls.
MaxSubs == 2
\* Total number of Request calls started on a connection whose session token changes.
MaxSessionCalls == 2
\* Total number of onEvent frames the server sends for one (type, object) pair.
MaxOrderEvents == 2
\* Total number of Request calls started by callers that may stop waiting.
MaxAbandonCalls == 2
\* Total number of onEvent frames the server sends to a callback that issues a Request.
MaxCallbackEvents == 3
\* Several handlers on one pair: total number of Subscribe calls and of events received.
MaxFanSubs == 3
MaxFanEvents == 1
\* The three routes of a frame: total number of Request calls, of events received
\* and of Subscribe calls.
MaxRouteCalls == 1
MaxRouteEvents == 1
MaxRouteSubs == 1
\* MediaObject.Subscribe: total number of Request calls started.
MaxSubscribeCalls == 2
\* Unlocked float64-id revision: total number of Request calls started.
MaxFloatCalls == 2
\* Lock-guarded revision: total number of Request calls started.
MaxLockedCalls == 2
\* Lock-guarded revision: total number of Response frames the receive loop takes in.
MaxReadLocks == 2

\* ------------------------------------------------------------ model values
Callers    == {"c1", "c2"}
EventTypes == {"T1", "T2"}
Objects    == {"o1", "o2"}
Handlers   == {"h1", "h2"}
Callbacks  == {"cb1", "cb2"}
Sessions   == {"", "s1", "s2"}

\* const ConnectionLost = -1
ConnectionLost == -1
\* c.Dead = make(chan bool, 1)
DeadCap == 1
\* c.eChan = make(chan Event, 1)
EChanCap == 1

Nil == << >>
Some(x) == <<x>>
IsNil(o) == Len(o) = 0
Val(o) == o[1]

\* ------------------------------------------------------------------- state
VARIABLES
    clientId,     \* Connection.clientId (atomic.Int64)
    clients,      \* Connection.clients.clients : id -> channel
    SessionId,    \* Connection.SessionId
    subscribers,  \* Connection.events.subscribers : type -> object -> handler -> callback
    eChan,        \* Connection.eChan buffer (capacity 1)
    eClosed,      \* eChan has been closed
    Dead,         \* number of values buffered in Connection.Dead (capacity 1)
    IsDead,       \* Connection.IsDead
    chans,        \* the channels made at Request line 526: owner, id, values sent, closed
    rpc,          \* handleResponse: position
    cur,          \* handleResponse: the frame being processed (r / ev)
    arrived,      \* ids of the Response frames received for a written, pending request, in order
    epc,          \* handleEvents: position
    ecur,         \* handleEvents: the event being dispatched
    visited,      \* handleEvents: handler ids the range loop has produced
    rangeKeys,    \* handleEvents: handler ids present when the range loop started
    cpc,          \* Request caller: position
    req,          \* Request caller: the request envelope (req["id"], req["sessionId"])
    reqId,        \* Request caller: local reqId
    ret,          \* Request caller: the channel Request returned
    out,          \* Request caller: what the caller read from that channel
    written,      \* requests written on the websocket: id -> number of writes
    invoked,      \* callback invocations, in order
    unsubbed,     \* (triple, callback) pairs removed by Unsubscribe and not subscribed again
    panicked,     \* an unrecovered panic ended the program
    ncalls,       \* Request calls started
    nev,          \* onEvent frames accepted
    nsub,         \* Subscribe calls made
    locks         \* lock-guarded revision: clients.lock and events.lock (readers, writer)

vars == << clientId, clients, SessionId, subscribers, eChan, eClosed, Dead, IsDead,
           chans, rpc, cur, arrived, epc, ecur, visited, rangeKeys, cpc, req, reqId, ret, out,
           written, invoked, unsubbed, panicked, ncalls, nev, nsub, locks >>

connVars   == << clientId, clients, SessionId, Dead, IsDead, chans >>
loopVars   == << rpc, cur, arrived >>
evVars     == << epc, ecur, visited, rangeKeys, invoked >>
subVars    == << subscribers, unsubbed, nsub >>
callerVars == << cpc, req, reqId, ret, out, written, ncalls >>


\* ------------------------------------------------------------------ maps
\* m[k] = v on a Go map
MapSet(m, k, v) == [x \in (DOMAIN m) \cup {k} |-> IF x = k THEN v ELSE m[x]]
\* delete(m, k) on a Go map
MapDel(m, k) == [x \in (DOMAIN m) \ {k} |-> m[x]]
EmptyMap == [x \in {} |-> 0]

\* ---------------------------------------------------------------- frames
\* One inbound websocket message, described by what the decoders make of it:
\*   json    json.Unmarshal into json.RawMessage succeeds (line 410)
\*   rOK     json.Unmarshal into Response succeeds (line 305)
\*   eOK     json.Unmarshal into Event succeeds (line 319)
\*   Id, Result, Error   the fields decoded into Response (0 / nil when absent)
\*   Method              the field decoded into Event
\*   Value   ev.Params["value"].(map[string]interface{}), whose fields are the
\*           results of the assertions val["type"].(string), val["object"].(string),
\*           val["data"].(map[string]interface{})
Frame(id, result, error, method, value) ==
    [json |-> TRUE, rOK |-> TRUE, eOK |-> TRUE, Id |-> id, Result |-> result,
     Error |-> error, Method |-> method, Value |-> value]

NoFrame == Frame(0, Nil, Nil, "", Nil)

\* A result map: result["sessionId"].(string) and result["value"].(string)
ResultMap(sess, value) == Some([sessionId |-> sess, value |-> value])
AppError == Some([Code |-> 40101, Message |-> "X", Data |-> Some("Y")])
EventValue(t, o, d) == Some([type |-> t, object |-> o, data |-> d])

\* Frames with a response shape, for every id a Request call can be assigned
ResponseIds == 1 .. MaxCalls
PlainFrames ==
    UNION { { Frame(id, ResultMap(Nil, Some("abc")), Nil, "", Nil),          \* result, no sessionId
              Frame(id, Nil, AppError, "", Nil) }                            \* error only
            : id \in ResponseIds }
    \cup { Frame(1, ResultMap(Nil, Some("abc")), AppError, "", Nil) }        \* result and error
SessionFrames ==
    { Frame(1, ResultMap(Some(s), Some("abc")), Nil, "", Nil) : s \in Sessions }
OtherFrames ==
    { [NoFrame EXCEPT !.json = FALSE, !.rOK = FALSE, !.eOK = FALSE],          \* not JSON
      Frame(0, ResultMap(Nil, Some("abc")), Nil, "", Nil),                    \* a result without id
      Frame(1, Nil, Nil, "", Nil),                                            \* neither result nor error
      Frame(0, Nil, Nil, "ping", Nil),                                        \* some other method
      [Frame(1, ResultMap(Nil, Some("abc")), Nil, "", Nil) EXCEPT !.rOK = FALSE] } \* "error" is a JSON string
EventFrames ==
    { Frame(0, Nil, Nil, "onEvent", EventValue(Some(t), Some(o), Some(d))) :
        t \in EventTypes, o \in Objects, d \in {"d1", "d2"} }
MalformedEventFrames ==
    { Frame(0, Nil, Nil, "onEvent", Nil),                                     \* params has no value
      Frame(0, Nil, Nil, "onEvent", EventValue(Nil, Some("o1"), Some("d1"))), \* no string type
      Frame(0, Nil, Nil, "onEvent", EventValue(Some("T1"), Nil, Some("d1"))), \* no string object
      Frame(0, Nil, Nil, "onEvent", EventValue(Some("T1"), Some("o1"), Nil)) }\* data is no object
BothShapesFrames ==
    { Frame(1, ResultMap(Nil, Some("abc")), Nil, "onEvent",
            EventValue(Some("T1"), Some("o1"), Some("d1"))) }                 \* a Response and an Event

\* The Response struct r that handleResponse holds after decoding frame f
ResponseOf(f) == [Id |-> f.Id, Result |-> f.Result, Error |-> f.Error]

\* Response.unmarshal accepting only frames with a result
Response_unmarshal_ResultOnly(f) == f.rOK /\ f.Id > 0 /\ ~IsNil(f.Result)

\* func (r *Response) unmarshal(raw json.RawMessage) bool
Response_unmarshal(f) == f.rOK /\ f.Id > 0 /\ (~IsNil(f.Result) \/ ~IsNil(f.Error))

\* func (e *Event) unmarshal(raw json.RawMessage) bool
Event_unmarshal(f) == f.eOK /\ f.Method = "onEvent"

\* sessionID, ok := r.Result["sessionId"].(string)   (a nil map yields ok = false)
SessionOf(f) == IF IsNil(f.Result) THEN Nil ELSE Val(f.Result).sessionId

\* NewSessionId without the test sessionID != ""
NewSessionId_AcceptEmpty(old, f) ==
    IF ~IsNil(SessionOf(f)) /\ old # Val(SessionOf(f))
    THEN Val(SessionOf(f)) ELSE old

\* The new value of c.SessionId after line 423-428
NewSessionId(old, f) ==
    IF ~IsNil(SessionOf(f)) /\ Val(SessionOf(f)) # "" /\ old # Val(SessionOf(f))
    THEN Val(SessionOf(f)) ELSE old

\* ErrResp with the error code left at its zero value
ErrResp_ZeroCode(id) ==
    [Id |-> id, Result |-> Nil,
     Error |-> Some([Code |-> 0, Message |-> "No connection to Kurento server", Data |-> Nil])]

\* The synthesized Response of lines 506-511 and 540-546
ErrResp(id) ==
    [Id |-> id, Result |-> Nil,
     Error |-> Some([Code |-> ConnectionLost, Message |-> "No connection to Kurento server",
                     Data |-> Nil])]

\* Lines 512-516: errresp.Id = req["id"] when the envelope holds an int64 there
DeadRespId(e) == IF ~IsNil(e.id) /\ Val(e.id).t = "int64" THEN Val(e.id).v ELSE 0

\* c.clientId.Load() in place of Add(1)
AtomicAdd_Load(v) == v

\* c.clientId.Add(1)
AtomicAdd(v) == v + 1

\* ----------------------------------------------------- request envelopes
\* req["id"] as the caller built it: absent, an int64, or a value of another type
EnvelopeIds == { Nil, Some([t |-> "int64", v |-> 9]), Some([t |-> "float64", v |-> 9]) }
Envelopes == [id : EnvelopeIds, sessionId : {Nil}]
NoEnvelope == [id |-> Nil, sessionId |-> Nil]

\* channel handles held by a caller
NoChan == [kind |-> "none", ch |-> 0, buf |-> << >>]
NilChan == [kind |-> "nil", ch |-> 0, buf |-> << >>]
ErrChan(resp) == [kind |-> "err", ch |-> 0, buf |-> <<resp>>]
RegChan(n) == [kind |-> "reg", ch |-> n, buf |-> << >>]
NoResponse == [Id |-> 0, Result |-> Nil, Error |-> Nil]

\* sync.RWMutex: the number of read locks held and the task holding the write lock
Unlocked == [readers |-> 0, writer |-> Nil]
NoLocks == [clients |-> Unlocked, events |-> Unlocked]

\* -------------------------------------------------------------------- Init
\* NewConnection: empty maps, eChan and Dead empty, both loops started
Init ==
    /\ clientId = 0
    /\ clients = EmptyMap
    /\ SessionId = ""
    /\ subscribers = EmptyMap
    /\ eChan = << >>
    /\ eClosed = FALSE
    /\ Dead = 0
    /\ IsDead = FALSE
    /\ chans = << >>
    /\ rpc = "recv"
    /\ cur = NoFrame
    /\ arrived = << >>
    /\ epc = "range"
    /\ ecur = NoFrame
    /\ visited = {}
    /\ rangeKeys = {}
    /\ cpc = [c \in Callers |-> "idle"]
    /\ req = [c \in Callers |-> NoEnvelope]
    /\ reqId = [c \in Callers |-> 0]
    /\ ret = [c \in Callers |-> NoChan]
    /\ out = [c \in Callers |-> NoResponse]
    /\ written = EmptyMap
    /\ invoked = << >>
    /\ unsubbed = {}
    /\ panicked = FALSE
    /\ ncalls = 0
    /\ nev = 0
    /\ nsub = 0
    /\ locks = NoLocks

\* ------------------------------------------------- Connection.Request
\* Request_Dead taking an id for the request before it returns
Request_Dead_NewId(c, e) ==
    /\ ~panicked
    /\ cpc[c] = "idle"
    /\ IsDead
    /\ ncalls' = ncalls + 1
    /\ clientId' = AtomicAdd(clientId)
    /\ req' = [req EXCEPT ![c] = [e EXCEPT !.id = Some([t |-> "int64", v |-> clientId'])]]
    /\ ret' = [ret EXCEPT ![c] = ErrChan(ErrResp(DeadRespId(e)))]
    /\ cpc' = [cpc EXCEPT ![c] = "await"]
    /\ UNCHANGED << clients, SessionId, Dead, IsDead, chans, loopVars, evVars, subVars, eChan,
                    eClosed, reqId, out, written, panicked, nev >>
    /\ UNCHANGED locks

\* Line 504-518: the connection is dead; errchan is made, filled and returned.
Request_Dead(c, e) ==
    /\ ~panicked
    /\ cpc[c] = "idle"
    /\ IsDead
    /\ ncalls' = ncalls + 1
    /\ req' = [req EXCEPT ![c] = e]
    /\ ret' = [ret EXCEPT ![c] = ErrChan(ErrResp(DeadRespId(e)))]
    /\ cpc' = [cpc EXCEPT ![c] = "await"]
    /\ UNCHANGED << connVars, loopVars, evVars, subVars, eChan, eClosed, reqId, out,
                    written, panicked, nev >>
    /\ UNCHANGED locks

\* Line 504: the connection is not dead; the call goes on.
Request_Alive(c, e) ==
    /\ ~panicked
    /\ cpc[c] = "idle"
    /\ ~IsDead
    /\ ncalls' = ncalls + 1
    /\ req' = [req EXCEPT ![c] = e]
    /\ cpc' = [cpc EXCEPT ![c] = "add"]
    /\ UNCHANGED << connVars, loopVars, evVars, subVars, eChan, eClosed, reqId, ret, out,
                    written, panicked, nev >>
    /\ UNCHANGED locks

\* Line 521-522: reqId := c.clientId.Add(1); req["id"] = reqId
Request_NextId(c) ==
    /\ ~panicked
    /\ cpc[c] = "add"
    /\ clientId' = AtomicAdd(clientId)
    /\ reqId' = [reqId EXCEPT ![c] = clientId']
    /\ req' = [req EXCEPT ![c].id = Some([t |-> "int64", v |-> clientId'])]
    /\ cpc' = [cpc EXCEPT ![c] = "sess"]
    /\ UNCHANGED << clients, SessionId, Dead, IsDead, chans, loopVars, evVars, subVars,
                    eChan, eClosed, ret, out, written, panicked, ncalls, nev >>
    /\ UNCHANGED locks

\* Request_Session leaving the envelope as the caller built it
Request_Session_Skip(c) ==
    /\ ~panicked
    /\ cpc[c] = "sess"
    /\ cpc' = [cpc EXCEPT ![c] = "reg"]
    /\ UNCHANGED << connVars, loopVars, evVars, subVars, eChan, eClosed, req, reqId, ret,
                    out, written, panicked, ncalls, nev >>
    /\ UNCHANGED locks

\* Line 523-525: if c.SessionId != "" { req["sessionId"] = c.SessionId }
\* (SessionId is never set back to "", so the two reads act as one)
Request_Session(c) ==
    /\ ~panicked
    /\ cpc[c] = "sess"
    /\ req' = [req EXCEPT ![c].sessionId = IF SessionId # "" THEN Some(SessionId) ELSE @]
    /\ cpc' = [cpc EXCEPT ![c] = "reg"]
    /\ UNCHANGED << connVars, loopVars, evVars, subVars, eChan, eClosed, reqId, ret,
                    out, written, panicked, ncalls, nev >>
    /\ UNCHANGED locks

\* Line 526: c.clients.clients[reqId] = make(chan Response)
Request_Register(c) ==
    /\ ~panicked
    /\ cpc[c] = "reg"
    /\ chans' = Append(chans, [owner |-> c, id |-> reqId[c], sent |-> 0, closed |-> FALSE])
    /\ clients' = MapSet(clients, reqId[c], Len(chans) + 1)
    /\ cpc' = [cpc EXCEPT ![c] = "send"]
    /\ UNCHANGED << clientId, SessionId, Dead, IsDead, loopVars, evVars, subVars, eChan,
                    eClosed, req, reqId, ret, out, written, panicked, ncalls, nev >>
    /\ UNCHANGED locks

\* One more request with this id is on the wire
Wrote(w, id) == MapSet(w, id, IF id \in DOMAIN w THEN w[id] + 1 ELSE 1)

\* Request_SendOK returning the channel under the shared counter: c.clients.clients[c.clientId]
Request_SendOK_SharedId(c) ==
    /\ ~panicked
    /\ cpc[c] = "send"
    /\ written' = Wrote(written, Val(req[c].id).v)
    /\ ret' = [ret EXCEPT ![c] = IF clientId \in DOMAIN clients
                                  THEN RegChan(clients[clientId]) ELSE NilChan]
    /\ cpc' = [cpc EXCEPT ![c] = "await"]
    /\ UNCHANGED << connVars, loopVars, evVars, subVars, eChan, eClosed, req, reqId,
                    out, panicked, ncalls, nev >>
    /\ UNCHANGED locks

\* Line 531 and 551: websocket.JSON.Send succeeds; return c.clients.clients[reqId]
\* (nil when the key is absent)
Request_SendOK(c) ==
    /\ ~panicked
    /\ cpc[c] = "send"
    /\ written' = Wrote(written, Val(req[c].id).v)
    /\ ret' = [ret EXCEPT ![c] = IF reqId[c] \in DOMAIN clients
                                  THEN RegChan(clients[reqId[c]]) ELSE NilChan]
    /\ cpc' = [cpc EXCEPT ![c] = "await"]
    /\ UNCHANGED << connVars, loopVars, evVars, subVars, eChan, eClosed, req, reqId,
                    out, panicked, ncalls, nev >>
    /\ UNCHANGED locks

\* Line 531-533: websocket.JSON.Send fails
Request_SendFail(c) ==
    /\ ~panicked
    /\ cpc[c] = "send"
    /\ cpc' = [cpc EXCEPT ![c] = "fsignal"]
    /\ UNCHANGED << connVars, loopVars, evVars, subVars, eChan, eClosed, req, reqId, ret,
                    out, written, panicked, ncalls, nev >>
    /\ UNCHANGED locks

\* Line 534: c.Dead <- true   (blocks while Dead holds a value)
Request_FailSignal(c) ==
    /\ ~panicked
    /\ cpc[c] = "fsignal"
    /\ Dead < DeadCap
    /\ Dead' = Dead + 1
    /\ cpc' = [cpc EXCEPT ![c] = "fmark"]
    /\ UNCHANGED << clientId, clients, SessionId, IsDead, chans, loopVars, evVars, subVars,
                    eChan, eClosed, req, reqId, ret, out, written, panicked, ncalls, nev >>
    /\ UNCHANGED locks

\* Line 535: c.IsDead = true
Request_FailMark(c) ==
    /\ ~panicked
    /\ cpc[c] = "fmark"
    /\ IsDead' = TRUE
    /\ cpc' = [cpc EXCEPT ![c] = "fdelete"]
    /\ UNCHANGED << clientId, clients, SessionId, Dead, chans, loopVars, evVars, subVars,
                    eChan, eClosed, req, reqId, ret, out, written, panicked, ncalls, nev >>
    /\ UNCHANGED locks

\* Request_FailReturn without the delete of line 537
Request_FailReturn_Keep(c) ==
    /\ ~panicked
    /\ cpc[c] = "fdelete"
    /\ ret' = [ret EXCEPT ![c] = ErrChan(ErrResp(Val(req[c].id).v))]
    /\ cpc' = [cpc EXCEPT ![c] = "await"]
    /\ UNCHANGED << connVars, loopVars, evVars, subVars,
                    eChan, eClosed, req, reqId, out, written, panicked, ncalls, nev >>
    /\ UNCHANGED locks

\* Line 537-549: delete(c.clients.clients, reqId); errchan is made, filled and returned
Request_FailReturn(c) ==
    /\ ~panicked
    /\ cpc[c] = "fdelete"
    /\ clients' = MapDel(clients, reqId[c])
    /\ ret' = [ret EXCEPT ![c] = ErrChan(ErrResp(Val(req[c].id).v))]
    /\ cpc' = [cpc EXCEPT ![c] = "await"]
    /\ UNCHANGED << clientId, SessionId, Dead, IsDead, chans, loopVars, evVars, subVars,
                    eChan, eClosed, req, reqId, out, written, panicked, ncalls, nev >>
    /\ UNCHANGED locks

\* The caller reads the buffered value of an errchan:  res := <-c.Request(req)
Caller_ReceiveErr(c) ==
    /\ ~panicked
    /\ cpc[c] = "await"
    /\ ret[c].kind = "err"
    /\ Len(ret[c].buf) > 0
    /\ out' = [out EXCEPT ![c] = Head(ret[c].buf)]
    /\ ret' = [ret EXCEPT ![c].buf = Tail(@)]
    /\ cpc' = [cpc EXCEPT ![c] = "got"]
    /\ UNCHANGED << connVars, loopVars, evVars, subVars, eChan, eClosed, req, reqId,
                    written, panicked, ncalls, nev >>
    /\ UNCHANGED locks

\* The caller is done with the outcome and may call Request again.
Caller_Done(c) ==
    /\ ~panicked
    /\ cpc[c] = "got"
    /\ cpc' = [cpc EXCEPT ![c] = "idle"]
    /\ req' = [req EXCEPT ![c] = NoEnvelope]
    /\ reqId' = [reqId EXCEPT ![c] = 0]
    /\ ret' = [ret EXCEPT ![c] = NoChan]
    /\ out' = [out EXCEPT ![c] = NoResponse]
    /\ UNCHANGED << connVars, loopVars, evVars, subVars, eChan, eClosed, written,
                    panicked, ncalls, nev >>
    /\ UNCHANGED locks

\* Request returns a receive-only channel (line 503) and leaves reading it to the caller:
\* a caller that has its own deadline stops waiting and drops the channel unread.
Caller_Abandon(c) ==
    /\ ~panicked
    /\ cpc[c] = "await"
    /\ ret[c].kind = "reg"
    /\ cpc' = [cpc EXCEPT ![c] = "idle"]
    /\ req' = [req EXCEPT ![c] = NoEnvelope]
    /\ reqId' = [reqId EXCEPT ![c] = 0]
    /\ ret' = [ret EXCEPT ![c] = NoChan]
    /\ UNCHANGED << connVars, loopVars, evVars, subVars, eChan, eClosed, out, written,
                    panicked, ncalls, nev >>
    /\ UNCHANGED locks


\* --------------------------------------------- Connection.handleResponse
\* Line 394-397: websocket.Message.Receive fails; c.IsDead = true
handleResponse_ReceiveError ==
    /\ ~panicked
    /\ rpc = "recv"
    /\ IsDead' = TRUE
    /\ rpc' = "signal"
    /\ UNCHANGED << clientId, clients, SessionId, Dead, chans, cur, evVars, subVars,
                    callerVars, eChan, eClosed, panicked, nev >>
    /\ UNCHANGED arrived
    /\ UNCHANGED locks

\* Line 398: c.Dead <- true   (blocks while Dead holds a value)
handleResponse_Signal ==
    /\ ~panicked
    /\ rpc = "signal"
    /\ Dead < DeadCap
    /\ Dead' = Dead + 1
    /\ rpc' = "close"
    /\ UNCHANGED << clientId, clients, SessionId, IsDead, chans, cur, evVars, subVars,
                    callerVars, eChan, eClosed, panicked, nev >>
    /\ UNCHANGED arrived
    /\ UNCHANGED locks

\* Line 399-400: close(c.eChan); break   (closing a closed channel panics)
handleResponse_CloseEvents ==
    /\ ~panicked
    /\ rpc = "close"
    /\ IF eClosed THEN panicked' = TRUE /\ UNCHANGED eClosed
                  ELSE eClosed' = TRUE /\ UNCHANGED panicked
    /\ rpc' = "done"
    /\ UNCHANGED << connVars, cur, evVars, subVars, callerVars, eChan, nev >>
    /\ UNCHANGED arrived
    /\ UNCHANGED locks

\* handleResponse_RecvResponse taking a successful receive as a sign of life
handleResponse_RecvResponse_Revive(f) ==
    /\ ~panicked
    /\ rpc = "recv"
    /\ f.json
    /\ Response_unmarshal(f)
    /\ cur' = f
    /\ SessionId' = NewSessionId(SessionId, f)
    /\ IsDead' = FALSE
    /\ rpc' = "lookup"
    /\ UNCHANGED << clientId, clients, Dead, chans, evVars, subVars, callerVars,
                    eChan, eClosed, panicked, nev >>
    /\ arrived' = IF f.Id \in DOMAIN clients /\ f.Id \in DOMAIN written
                   THEN Append(arrived, f.Id) ELSE arrived
    /\ UNCHANGED locks

\* Line 394-428: a frame is received and classified as a Response; a new sessionId is saved
handleResponse_RecvResponse(f) ==
    /\ ~panicked
    /\ rpc = "recv"
    /\ f.json
    /\ Response_unmarshal(f)
    /\ cur' = f
    /\ SessionId' = NewSessionId(SessionId, f)
    /\ rpc' = "lookup"
    /\ UNCHANGED << clientId, clients, Dead, IsDead, chans, evVars, subVars, callerVars,
                    eChan, eClosed, panicked, nev >>
    /\ arrived' = IF f.Id \in DOMAIN clients /\ f.Id \in DOMAIN written
                   THEN Append(arrived, f.Id) ELSE arrived
    /\ UNCHANGED locks

\* handleResponse_RecvEvent with the Event test tried before the Response test
handleResponse_RecvEvent_First(f) ==
    /\ ~panicked
    /\ rpc = "recv"
    /\ f.json
    /\ Event_unmarshal(f)
    /\ cur' = f
    /\ nev' = nev + 1
    /\ rpc' = "event"
    /\ UNCHANGED << connVars, evVars, subVars, callerVars, eChan, eClosed, panicked >>
    /\ UNCHANGED arrived
    /\ UNCHANGED locks

\* Line 394-448: a frame is received and classified as an Event
handleResponse_RecvEvent(f) ==
    /\ ~panicked
    /\ rpc = "recv"
    /\ f.json
    /\ ~Response_unmarshal(f)
    /\ Event_unmarshal(f)
    /\ cur' = f
    /\ nev' = nev + 1
    /\ rpc' = "event"
    /\ UNCHANGED << connVars, evVars, subVars, callerVars, eChan, eClosed, panicked >>
    /\ UNCHANGED arrived
    /\ UNCHANGED locks

\* Line 410-414 and 456-458: invalid JSON, or neither a Response nor an Event
handleResponse_RecvOther(f) ==
    /\ ~panicked
    /\ rpc = "recv"
    /\ ~f.json \/ (~Response_unmarshal(f) /\ ~Event_unmarshal(f))
    /\ UNCHANGED vars

\* The lookup made under the shared counter: c.clients.clients[c.clientId.Load()] != nil
HasClient_Latest(id) == clientId \in DOMAIN clients

\* Line 433: c.clients.clients[r.Id] != nil
HasClient(id) == id \in DOMAIN clients

\* Line 433: a client is registered under r.Id
handleResponse_Found ==
    /\ ~panicked
    /\ rpc = "lookup"
    /\ HasClient(cur.Id)
    /\ rpc' = "deliver"
    /\ UNCHANGED << connVars, cur, evVars, subVars, callerVars, eChan, eClosed, panicked, nev >>
    /\ UNCHANGED arrived
    /\ UNCHANGED locks

\* handleResponse_Drop treating an unknown id as a failure of the connection
handleResponse_Drop_Fatal ==
    /\ ~panicked
    /\ rpc = "lookup"
    /\ ~HasClient(cur.Id)
    /\ IsDead' = TRUE
    /\ rpc' = "recv"
    /\ cur' = NoFrame
    /\ UNCHANGED << clientId, clients, SessionId, Dead, chans, evVars, subVars, callerVars,
                    eChan, eClosed, panicked, nev >>
    /\ UNCHANGED arrived
    /\ UNCHANGED locks

\* Line 444-447: no client is registered under r.Id, the message is dropped
handleResponse_Drop ==
    /\ ~panicked
    /\ rpc = "lookup"
    /\ ~HasClient(cur.Id)
    /\ rpc' = "recv"
    /\ cur' = NoFrame
    /\ UNCHANGED << connVars, evVars, subVars, callerVars, eChan, eClosed, panicked, nev >>
    /\ UNCHANGED arrived
    /\ UNCHANGED locks

\* Line 437: c.clients.clients[r.Id] <- r on an unbuffered channel: the send completes
\* together with the receive of a caller reading the channel Request returned to it.
\* (An absent key yields a nil channel, on which the send blocks for ever.)
handleResponse_Deliver(c) ==
    /\ ~panicked
    /\ rpc = "deliver"
    /\ cur.Id \in DOMAIN clients
    /\ ~chans[clients[cur.Id]].closed
    /\ cpc[c] \in {"await", "got"}
    /\ ret[c] = RegChan(clients[cur.Id])
    /\ out' = [out EXCEPT ![c] = ResponseOf(cur)]
    /\ chans' = [chans EXCEPT ![clients[cur.Id]].sent = @ + 1]
    /\ cpc' = [cpc EXCEPT ![c] = "got"]
    /\ rpc' = "closech"
    /\ UNCHANGED << clientId, clients, SessionId, Dead, IsDead, cur, evVars, subVars,
                    eChan, eClosed, req, reqId, ret, written, panicked, ncalls, nev >>
    /\ UNCHANGED arrived
    /\ UNCHANGED locks

\* Line 439: close(c.clients.clients[r.Id])   (a nil or closed channel panics)
handleResponse_Close ==
    /\ ~panicked
    /\ rpc = "closech"
    /\ IF cur.Id \in DOMAIN clients /\ ~chans[clients[cur.Id]].closed
       THEN chans' = [chans EXCEPT ![clients[cur.Id]].closed = TRUE] /\ UNCHANGED panicked
       ELSE panicked' = TRUE /\ UNCHANGED chans
    /\ rpc' = "delete"
    /\ UNCHANGED << clientId, clients, SessionId, Dead, IsDead, cur, evVars, subVars,
                    callerVars, eChan, eClosed, nev >>
    /\ UNCHANGED arrived
    /\ UNCHANGED locks

\* handleResponse_Delete without the delete
handleResponse_Delete_Keep ==
    /\ ~panicked
    /\ rpc = "delete"
    /\ cur' = NoFrame
    /\ rpc' = "recv"
    /\ UNCHANGED << connVars, evVars, subVars, callerVars, eChan, eClosed, panicked, nev >>
    /\ UNCHANGED arrived
    /\ UNCHANGED locks

\* Line 440: delete(c.clients.clients, r.Id)
handleResponse_Delete ==
    /\ ~panicked
    /\ rpc = "delete"
    /\ clients' = MapDel(clients, cur.Id)
    /\ cur' = NoFrame
    /\ rpc' = "recv"
    /\ UNCHANGED << clientId, SessionId, Dead, IsDead, chans, evVars, subVars,
                    callerVars, eChan, eClosed, panicked, nev >>
    /\ UNCHANGED arrived
    /\ UNCHANGED locks

\* handleResponse_Enqueue on a queue of two that takes the newest event first
handleResponse_Enqueue_Front ==
    /\ ~panicked
    /\ rpc = "event"
    /\ eClosed \/ Len(eChan) < EChanCap + 1
    /\ IF eClosed THEN panicked' = TRUE /\ UNCHANGED eChan
                  ELSE eChan' = << cur >> \o eChan /\ UNCHANGED panicked
    /\ cur' = NoFrame
    /\ rpc' = "recv"
    /\ UNCHANGED << connVars, evVars, subVars, callerVars, eClosed, nev >>
    /\ UNCHANGED arrived
    /\ UNCHANGED locks

\* Line 452: c.eChan <- ev   (blocks while the buffer is full; a closed channel panics)
handleResponse_Enqueue ==
    /\ ~panicked
    /\ rpc = "event"
    /\ eClosed \/ Len(eChan) < EChanCap
    /\ IF eClosed THEN panicked' = TRUE /\ UNCHANGED eChan
                  ELSE eChan' = Append(eChan, cur) /\ UNCHANGED panicked
    /\ cur' = NoFrame
    /\ rpc' = "recv"
    /\ UNCHANGED << connVars, evVars, subVars, callerVars, eClosed, nev >>
    /\ UNCHANGED arrived
    /\ UNCHANGED locks


\* ----------------------------------------------- Connection.handleEvents
\* The four type assertions of lines 465-473 all succeed
WellFormed(ev) ==
    /\ ~IsNil(ev.Value)
    /\ ~IsNil(Val(ev.Value).type)
    /\ ~IsNil(Val(ev.Value).object)
    /\ ~IsNil(Val(ev.Value).data)
EvType(ev) == Val(Val(ev.Value).type)
EvObject(ev) == Val(Val(ev.Value).object)
EvData(ev) == Val(Val(ev.Value).data)

\* Line 475 and 479: both lookups succeed
HasHandlers(t, o) == t \in DOMAIN subscribers /\ o \in DOMAIN subscribers[t]

\* Line 464-473: an event is taken from eChan and a type assertion panics
handleEvents_Panic ==
    /\ ~panicked
    /\ epc = "range"
    /\ Len(eChan) > 0
    /\ ~WellFormed(Head(eChan))
    /\ eChan' = Tail(eChan)
    /\ panicked' = TRUE
    /\ UNCHANGED << connVars, loopVars, evVars, subVars, callerVars, eClosed, nev >>
    /\ UNCHANGED locks

\* handleEvents_NoHandlers treating an event nobody subscribed to as fatal
handleEvents_NoHandlers_Fatal ==
    /\ ~panicked
    /\ epc = "range"
    /\ Len(eChan) > 0
    /\ WellFormed(Head(eChan))
    /\ ~HasHandlers(EvType(Head(eChan)), EvObject(Head(eChan)))
    /\ eChan' = Tail(eChan)
    /\ panicked' = TRUE
    /\ UNCHANGED << connVars, loopVars, evVars, subVars, callerVars, eClosed, nev >>
    /\ UNCHANGED locks

\* Line 464-479: an event is taken from eChan; no handler map for its type and object
handleEvents_NoHandlers ==
    /\ ~panicked
    /\ epc = "range"
    /\ Len(eChan) > 0
    /\ WellFormed(Head(eChan))
    /\ ~HasHandlers(EvType(Head(eChan)), EvObject(Head(eChan)))
    /\ eChan' = Tail(eChan)
    /\ UNCHANGED << connVars, loopVars, evVars, subVars, callerVars, eClosed, panicked, nev >>
    /\ UNCHANGED locks

\* Line 464-483: an event is taken from eChan; the range over objHandlers starts
handleEvents_Dispatch ==
    /\ ~panicked
    /\ epc = "range"
    /\ Len(eChan) > 0
    /\ WellFormed(Head(eChan))
    /\ HasHandlers(EvType(Head(eChan)), EvObject(Head(eChan)))
    /\ eChan' = Tail(eChan)
    /\ ecur' = Head(eChan)
    /\ rangeKeys' = DOMAIN subscribers[EvType(Head(eChan))][EvObject(Head(eChan))]
    /\ visited' = {}
    /\ epc' = "handlers"
    /\ UNCHANGED << connVars, loopVars, subVars, callerVars, eClosed, invoked, panicked, nev >>
    /\ UNCHANGED locks

\* objHandlers chosen by the event type alone
ObjHandlers_ByType ==
    subscribers[EvType(ecur)][CHOOSE o \in DOMAIN subscribers[EvType(ecur)] : o # EvObject(ecur)
                                       \/ DOMAIN subscribers[EvType(ecur)] = {EvObject(ecur)}]

\* objHandlers, the inner map the range loop iterates (shared with Subscribe/Unsubscribe)
ObjHandlers == subscribers[EvType(ecur)][EvObject(ecur)]

\* Line 483-487: the range produces handler h and handler(data) is called
handleEvents_Invoke(h) ==
    /\ ~panicked
    /\ epc = "handlers"
    /\ h \in (DOMAIN ObjHandlers) \ visited
    /\ invoked' = Append(invoked, [cb |-> ObjHandlers[h], type |-> EvType(ecur),
                                   object |-> EvObject(ecur), handler |-> h,
                                   data |-> EvData(ecur)])
    /\ visited' = visited \cup {h}
    /\ UNCHANGED << connVars, loopVars, subVars, callerVars, eChan, eClosed, epc, ecur,
                    rangeKeys, panicked, nev >>
    /\ UNCHANGED locks

\* Line 483-487 with a handler whose body is  res := <-c.Request(req)  on a live
\* connection: handler(data) is called on the handleEvents task, which runs Request as
\* caller c (line 504 finds IsDead false) and does not come back to the range before
\* the handler returns.
handleEvents_InvokeCall(h, c) ==
    /\ ~panicked
    /\ epc = "handlers"
    /\ h \in (DOMAIN ObjHandlers) \ visited
    /\ cpc[c] = "idle"
    /\ ~IsDead
    /\ invoked' = Append(invoked, [cb |-> ObjHandlers[h], type |-> EvType(ecur),
                                   object |-> EvObject(ecur), handler |-> h,
                                   data |-> EvData(ecur)])
    /\ visited' = visited \cup {h}
    /\ epc' = "callback"
    /\ ncalls' = ncalls + 1
    /\ req' = [req EXCEPT ![c] = NoEnvelope]
    /\ cpc' = [cpc EXCEPT ![c] = "add"]
    /\ UNCHANGED << connVars, loopVars, subVars, eChan, eClosed, ecur, rangeKeys, reqId,
                    ret, out, written, panicked, nev >>
    /\ UNCHANGED locks

\* The handler has read its response and returns; the range of line 483 goes on
handleEvents_CallbackReturn(c) ==
    /\ ~panicked
    /\ epc = "callback"
    /\ cpc[c] = "got"
    /\ epc' = "handlers"
    /\ cpc' = [cpc EXCEPT ![c] = "idle"]
    /\ req' = [req EXCEPT ![c] = NoEnvelope]
    /\ reqId' = [reqId EXCEPT ![c] = 0]
    /\ ret' = [ret EXCEPT ![c] = NoChan]
    /\ out' = [out EXCEPT ![c] = NoResponse]
    /\ UNCHANGED << connVars, loopVars, subVars, eChan, eClosed, ecur, visited, rangeKeys,
                    invoked, written, panicked, ncalls, nev >>
    /\ UNCHANGED locks

\* handleEvents_EndRange leaving the range after the first handler
handleEvents_EndRange_Early ==
    /\ ~panicked
    /\ epc = "handlers"
    /\ visited # {}
    /\ epc' = "range"
    /\ ecur' = NoFrame
    /\ rangeKeys' = {}
    /\ visited' = {}
    /\ UNCHANGED << connVars, loopVars, subVars, callerVars, eChan, eClosed, invoked,
                    panicked, nev >>
    /\ UNCHANGED locks

\* Line 491-500: the range ends.  Every entry that was present when it started and is
\* still present has been produced; an entry created meanwhile may have been skipped.
handleEvents_EndRange ==
    /\ ~panicked
    /\ epc = "handlers"
    /\ (rangeKeys \cap DOMAIN ObjHandlers) \subseteq visited
    /\ epc' = "range"
    /\ ecur' = NoFrame
    /\ rangeKeys' = {}
    /\ visited' = {}
    /\ UNCHANGED << connVars, loopVars, subVars, callerVars, eChan, eClosed, invoked,
                    panicked, nev >>
    /\ UNCHANGED locks

\* Line 464: eChan is closed and drained, the range over it ends
handleEvents_Exit ==
    /\ ~panicked
    /\ epc = "range"
    /\ Len(eChan) = 0
    /\ eClosed
    /\ epc' = "done"
    /\ UNCHANGED << connVars, loopVars, subVars, callerVars, eChan, eClosed, ecur, visited,
                    rangeKeys, invoked, panicked, nev >>
    /\ UNCHANGED locks

\* ------------------------------- Connection.Subscribe / Unsubscribe
\* The callback registered under (t, o, h), if any
Registered(t, o, h) ==
    /\ t \in DOMAIN subscribers
    /\ o \in DOMAIN subscribers[t]
    /\ h \in DOMAIN subscribers[t][o]

\* Subscribe keeping the callback already registered under the triple
SubscribeMap_KeepFirst(subs, t, o, h, cb) ==
    LET oh == IF t \in DOMAIN subs THEN subs[t] ELSE EmptyMap
        he == IF o \in DOMAIN oh THEN oh[o] ELSE EmptyMap
    IN  MapSet(subs, t, MapSet(oh, o, IF h \in DOMAIN he THEN he ELSE MapSet(he, h, cb)))

\* Line 558-569: the registry after Subscribe(t, o, h, cb)
SubscribeMap(subs, t, o, h, cb) ==
    LET oh == IF t \in DOMAIN subs THEN subs[t] ELSE EmptyMap
        he == IF o \in DOMAIN oh THEN oh[o] ELSE EmptyMap
    IN  MapSet(subs, t, MapSet(oh, o, MapSet(he, h, cb)))

\* Unsubscribe deleting every handler of (t, o)
UnsubscribeMap_AllHandlers(subs, t, o, h) ==
    IF t \notin DOMAIN subs THEN subs
    ELSE IF o \notin DOMAIN subs[t] THEN subs
    ELSE MapSet(subs, t, MapSet(subs[t], o, EmptyMap))

\* Unsubscribe without the delete of line 585
UnsubscribeMap_Keep(subs, t, o, h) == subs

\* Unsubscribe dropping the whole handler map of (t, o) when h is not in it
UnsubscribeMap_DropObject(subs, t, o, h) ==
    IF t \notin DOMAIN subs THEN subs
    ELSE IF o \notin DOMAIN subs[t] THEN subs
    ELSE IF h \notin DOMAIN subs[t][o] THEN MapSet(subs, t, MapDel(subs[t], o))
    ELSE MapSet(subs, t, MapSet(subs[t], o, MapDel(subs[t][o], h)))

\* Line 577-585: the registry after Unsubscribe(t, o, h)
UnsubscribeMap(subs, t, o, h) ==
    IF t \notin DOMAIN subs THEN subs
    ELSE IF o \notin DOMAIN subs[t] THEN subs
    ELSE MapSet(subs, t, MapSet(subs[t], o, MapDel(subs[t][o], h)))

\* func (c *Connection) Subscribe(event, objectId, handlerId string, handler eventHandler)
Subscribe(t, o, h, cb) ==
    /\ ~panicked
    /\ nsub' = nsub + 1
    /\ subscribers' = SubscribeMap(subscribers, t, o, h, cb)
    /\ unsubbed' = { u \in unsubbed : << u[1], u[2], u[3] >> # << t, o, h >> }
    /\ UNCHANGED << connVars, loopVars, evVars, callerVars, eChan, eClosed, panicked, nev >>
    /\ UNCHANGED locks

\* func (c *Connection) Unsubscribe(event, objectId, handlerId string)
Unsubscribe(t, o, h) ==
    /\ ~panicked
    /\ subscribers' = UnsubscribeMap(subscribers, t, o, h)
    /\ unsubbed' = IF Registered(t, o, h)
                   THEN unsubbed \cup { << t, o, h, subscribers[t][o][h] >> }
                   ELSE unsubbed
    /\ UNCHANGED << connVars, loopVars, evVars, callerVars, eChan, eClosed, panicked,
                    nev, nsub >>
    /\ UNCHANGED locks

\* ------------------------ MediaObject.Subscribe (src/complexTypes_RembParams.go)
\* res.Result["value"].(string) succeeds: the result map holds a string under "value"
\* (indexing the nil map of a Response without result yields nil)
HasStringValue(res) == ~IsNil(res.Result) /\ ~IsNil(Val(res.Result).value)

\* Line 130-144: res := <-elem.connection.Request(req) has been read.
\* handlerId := res.Result["value"].(string) panics unless the result holds a string;
\* elem.connection.Subscribe(event, elem.String(), handlerId, cb) registers the
\* callback; only then res.Error is looked at, to choose the error returned.
MediaObject_Subscribe_Return(c, t, o, cb) ==
    /\ ~panicked
    /\ cpc[c] = "got"
    /\ IF HasStringValue(out[c])
       THEN /\ subscribers' = SubscribeMap(subscribers, t, o, Val(Val(out[c].Result).value), cb)
            /\ nsub' = nsub + 1
            /\ unsubbed' = { u \in unsubbed :
                               << u[1], u[2], u[3] >> # << t, o, Val(Val(out[c].Result).value) >> }
            /\ cpc' = [cpc EXCEPT ![c] = "idle"]
            /\ req' = [req EXCEPT ![c] = NoEnvelope]
            /\ reqId' = [reqId EXCEPT ![c] = 0]
            /\ ret' = [ret EXCEPT ![c] = NoChan]
            /\ out' = [out EXCEPT ![c] = NoResponse]
            /\ UNCHANGED panicked
       ELSE /\ panicked' = TRUE
            /\ cpc' = [cpc EXCEPT ![c] = "panic"]
            /\ UNCHANGED << subscribers, nsub, unsubbed, req, reqId, ret, out >>
    /\ UNCHANGED << connVars, loopVars, evVars, eChan, eClosed, written, ncalls, nev, locks >>

\* --------------------- unlocked float64-id revision (src/unnamed/part_001, 113-237)
\* The revision of part_001, lines 113-237: c.clientId is a plain float64 field and no
\* lock is taken.  Request reads and writes the field and the map while other calls do
\* the same, so its statements interleave with theirs; the steps below are the
\* statements, with c.clientId++ as a load followed by a store.  Lines 208-210 are the
\* statements of Request_Session, lines 216-220 those of Request_SendFail,
\* Request_FailSignal and Request_FailMark, and the loop of lines 113-168 is the loop of
\* the atomic revision up to its exit.

\* The envelope holds a float64 under "id"
HasFloatId(e) == ~IsNil(e.id) /\ Val(e.id).t = "float64"

\* Line 193-203: the connection is dead.  Id: req["id"].(float64) panics unless the
\* envelope holds a float64 there; otherwise errchan is made, filled and returned.
FloatRequest_Dead(c, e) ==
    /\ ~panicked
    /\ cpc[c] = "idle"
    /\ IsDead
    /\ ncalls' = ncalls + 1
    /\ req' = [req EXCEPT ![c] = e]
    /\ IF HasFloatId(e)
       THEN /\ ret' = [ret EXCEPT ![c] = ErrChan(ErrResp(Val(e.id).v))]
            /\ cpc' = [cpc EXCEPT ![c] = "await"]
            /\ UNCHANGED panicked
       ELSE /\ panicked' = TRUE
            /\ UNCHANGED << ret, cpc >>
    /\ UNCHANGED << connVars, loopVars, evVars, subVars, eChan, eClosed, reqId, out,
                    written, nev, locks >>

\* Line 206, first half of c.clientId++: the field is read
FloatRequest_IncLoad(c) ==
    /\ ~panicked
    /\ cpc[c] = "add"
    /\ reqId' = [reqId EXCEPT ![c] = clientId]
    /\ cpc' = [cpc EXCEPT ![c] = "inc"]
    /\ UNCHANGED << connVars, loopVars, evVars, subVars, eChan, eClosed, req, ret, out,
                    written, panicked, ncalls, nev, locks >>

\* Line 206, second half of c.clientId++: the value read, plus one, is written back
FloatRequest_IncStore(c) ==
    /\ ~panicked
    /\ cpc[c] = "inc"
    /\ clientId' = reqId[c] + 1
    /\ cpc' = [cpc EXCEPT ![c] = "setid"]
    /\ UNCHANGED << clients, SessionId, Dead, IsDead, chans, loopVars, evVars, subVars,
                    eChan, eClosed, req, reqId, ret, out, written, panicked, ncalls, nev, locks >>

\* Line 207: req["id"] = c.clientId   (the field, as it is now)
FloatRequest_SetId(c) ==
    /\ ~panicked
    /\ cpc[c] = "setid"
    /\ req' = [req EXCEPT ![c].id = Some([t |-> "float64", v |-> clientId])]
    /\ reqId' = [reqId EXCEPT ![c] = clientId]
    /\ cpc' = [cpc EXCEPT ![c] = "sess"]
    /\ UNCHANGED << connVars, loopVars, evVars, subVars, eChan, eClosed, ret, out,
                    written, panicked, ncalls, nev, locks >>

\* Line 211: c.clients.clients[c.clientId] = make(chan Response)
FloatRequest_Register(c) ==
    /\ ~panicked
    /\ cpc[c] = "reg"
    /\ chans' = Append(chans, [owner |-> c, id |-> clientId, sent |-> 0, closed |-> FALSE])
    /\ clients' = MapSet(clients, clientId, Len(chans) + 1)
    /\ cpc' = [cpc EXCEPT ![c] = "send"]
    /\ UNCHANGED << clientId, SessionId, Dead, IsDead, loopVars, evVars, subVars, eChan,
                    eClosed, req, reqId, ret, out, written, panicked, ncalls, nev, locks >>

\* Line 216 and 236: websocket.JSON.Send succeeds; return c.clients.clients[c.clientId]
\* (nil when the key is absent)
FloatRequest_SendOK(c) ==
    /\ ~panicked
    /\ cpc[c] = "send"
    /\ written' = Wrote(written, Val(req[c].id).v)
    /\ ret' = [ret EXCEPT ![c] = IF clientId \in DOMAIN clients
                                  THEN RegChan(clients[clientId]) ELSE NilChan]
    /\ cpc' = [cpc EXCEPT ![c] = "await"]
    /\ UNCHANGED << connVars, loopVars, evVars, subVars, eChan, eClosed, req, reqId,
                    out, panicked, ncalls, nev, locks >>

\* Line 222-234: delete(c.clients.clients, c.clientId); errchan is made, filled with
\* Id: req["id"].(float64) and returned
FloatRequest_FailReturn(c) ==
    /\ ~panicked
    /\ cpc[c] = "fdelete"
    /\ clients' = MapDel(clients, clientId)
    /\ ret' = [ret EXCEPT ![c] = ErrChan(ErrResp(Val(req[c].id).v))]
    /\ cpc' = [cpc EXCEPT ![c] = "await"]
    /\ UNCHANGED << clientId, SessionId, Dead, IsDead, chans, loopVars, evVars, subVars,
                    eChan, eClosed, req, reqId, out, written, panicked, ncalls, nev, locks >>

\* Line 121-122: c.Dead <- true; break   (blocks while Dead holds a value)
FloatHandleResponse_SignalReturn ==
    /\ ~panicked
    /\ rpc = "signal"
    /\ Dead < DeadCap
    /\ Dead' = Dead + 1
    /\ rpc' = "done"
    /\ UNCHANGED << clientId, clients, SessionId, IsDead, chans, cur, arrived, evVars, subVars,
                    callerVars, eChan, eClosed, panicked, nev, locks >>

\* ------------------------------- lock-guarded revision (src/unnamed/part_002)
\* The revision of part_002, lines 96-222: float64 ids, Request runs under
\* c.clients.lock.Lock() with a deferred Unlock, handleResponse takes read locks with
\* deferred RUnlocks, which run when handleResponse returns and not at the end of an
\* iteration.  Lines 102-104 are the statements of handleResponse_ReceiveError, lines
\* 137 and 144-147 those of handleResponse_Found and handleResponse_Drop.

\* Line 117: isResponse := r.Id > 0 && r.Result != nil
isResponse_Locked(f) == f.Id > 0 /\ ~IsNil(f.Result)
\* Line 118: isEvent := ev.Method == "onEvent"
isEvent_Locked(f) == f.Method = "onEvent"

\* A task has called Lock() on clients.lock and is waiting for it
WaitingWriter == rpc = "wlock" \/ \E c \in Callers : cpc[c] = "lock"

\* Line 174-175: Request is called and calls c.clients.lock.Lock()
LockedRequest_Call(c, e) ==
    /\ ~panicked
    /\ cpc[c] = "idle"
    /\ ncalls' = ncalls + 1
    /\ req' = [req EXCEPT ![c] = e]
    /\ cpc' = [cpc EXCEPT ![c] = "lock"]
    /\ UNCHANGED << connVars, loopVars, evVars, subVars, eChan, eClosed, reqId, ret, out,
                    written, panicked, nev, locks >>

\* sync.RWMutex.Lock on clients.lock returns to task t: there is no reader and no writer.
\* Line 175 for a Request caller; line 140-143 for the receive loop, which then closes
\* the channel and deletes the entry under the write lock (released by a deferred call).
Locked_Lock(t) ==
    /\ ~panicked
    /\ locks.clients.readers = 0
    /\ IsNil(locks.clients.writer)
    /\ locks' = [locks EXCEPT !.clients.writer = Some(t)]
    /\ IF t = "loop"
       THEN /\ rpc = "wlock"
            /\ IF cur.Id \in DOMAIN clients /\ ~chans[clients[cur.Id]].closed
               THEN chans' = [chans EXCEPT ![clients[cur.Id]].closed = TRUE] /\ UNCHANGED panicked
               ELSE panicked' = TRUE /\ UNCHANGED chans
            /\ clients' = MapDel(clients, cur.Id)
            /\ cur' = NoFrame
            /\ rpc' = "recv"
            /\ UNCHANGED cpc
       ELSE /\ cpc[t] = "lock"
            /\ cpc' = [cpc EXCEPT ![t] = "locked"]
            /\ UNCHANGED << chans, clients, cur, rpc, panicked >>
    /\ UNCHANGED << clientId, SessionId, Dead, IsDead, arrived, evVars, subVars, eChan, eClosed,
                    req, reqId, ret, out, written, ncalls, nev >>

\* Line 178-188: the connection is dead.  Id: req["id"].(float64) panics unless the
\* envelope holds a float64 there; otherwise errchan is returned and the lock released.
LockedRequest_Dead(c) ==
    /\ ~panicked
    /\ cpc[c] = "locked"
    /\ IsDead
    /\ IF HasFloatId(req[c])
       THEN /\ ret' = [ret EXCEPT ![c] = ErrChan(ErrResp(Val(req[c].id).v))]
            /\ cpc' = [cpc EXCEPT ![c] = "await"]
            /\ locks' = [locks EXCEPT !.clients.writer = Nil]
            /\ UNCHANGED panicked
       ELSE /\ panicked' = TRUE
            /\ UNCHANGED << ret, cpc, locks >>
    /\ UNCHANGED << connVars, loopVars, evVars, subVars, eChan, eClosed, req, reqId, out,
                    written, ncalls, nev >>

\* Line 191-196: c.clientId++; req["id"] = c.clientId; the session token is attached;
\* c.clients.clients[c.clientId] = make(chan Response).  clientId and the map are only
\* touched under the write lock here.
LockedRequest_Register(c) ==
    /\ ~panicked
    /\ cpc[c] = "locked"
    /\ ~IsDead
    /\ clientId' = clientId + 1
    /\ reqId' = [reqId EXCEPT ![c] = clientId']
    /\ req' = [req EXCEPT ![c].id = Some([t |-> "float64", v |-> clientId']),
                          ![c].sessionId = IF SessionId # "" THEN Some(SessionId) ELSE @]
    /\ chans' = Append(chans, [owner |-> c, id |-> clientId', sent |-> 0, closed |-> FALSE])
    /\ clients' = MapSet(clients, clientId', Len(chans) + 1)
    /\ cpc' = [cpc EXCEPT ![c] = "send"]
    /\ UNCHANGED << SessionId, Dead, IsDead, loopVars, evVars, subVars, eChan, eClosed,
                    ret, out, written, panicked, ncalls, nev, locks >>

\* Line 201 and 221: the write succeeds; return c.clients.clients[c.clientId]; unlock
LockedRequest_SendOK(c) ==
    /\ ~panicked
    /\ cpc[c] = "send"
    /\ written' = Wrote(written, Val(req[c].id).v)
    /\ ret' = [ret EXCEPT ![c] = IF clientId \in DOMAIN clients
                                  THEN RegChan(clients[clientId]) ELSE NilChan]
    /\ cpc' = [cpc EXCEPT ![c] = "await"]
    /\ locks' = [locks EXCEPT !.clients.writer = Nil]
    /\ UNCHANGED << connVars, loopVars, evVars, subVars, eChan, eClosed, req, reqId,
                    out, panicked, ncalls, nev >>

\* Line 201-203: the write fails
LockedRequest_SendFail(c) ==
    /\ ~panicked
    /\ cpc[c] = "send"
    /\ cpc' = [cpc EXCEPT ![c] = "fsignal"]
    /\ UNCHANGED << connVars, loopVars, evVars, subVars, eChan, eClosed, req, reqId, ret,
                    out, written, panicked, ncalls, nev, locks >>

\* Line 204-219: c.Dead <- true (blocks while Dead holds a value); c.IsDead = true;
\* delete(c.clients.clients, c.clientId); errchan is returned and the lock released
LockedRequest_FailReturn(c) ==
    /\ ~panicked
    /\ cpc[c] = "fsignal"
    /\ Dead < DeadCap
    /\ Dead' = Dead + 1
    /\ IsDead' = TRUE
    /\ clients' = MapDel(clients, clientId)
    /\ ret' = [ret EXCEPT ![c] = ErrChan(ErrResp(Val(req[c].id).v))]
    /\ cpc' = [cpc EXCEPT ![c] = "await"]
    /\ locks' = [locks EXCEPT !.clients.writer = Nil]
    /\ UNCHANGED << clientId, SessionId, chans, loopVars, evVars, subVars, eChan, eClosed,
                    req, reqId, out, written, panicked, ncalls, nev >>

\* Line 101-128: a frame is received and classified as a Response; a new sessionId is saved
LockedHandleResponse_RecvResponse(f) ==
    /\ ~panicked
    /\ rpc = "recv"
    /\ isResponse_Locked(f)
    /\ cur' = f
    /\ SessionId' = NewSessionId(SessionId, f)
    /\ rpc' = "rlock"
    /\ arrived' = IF f.Id \in DOMAIN clients /\ f.Id \in DOMAIN written
                   THEN Append(arrived, f.Id) ELSE arrived
    /\ UNCHANGED << clientId, clients, Dead, IsDead, chans, evVars, subVars, callerVars,
                    eChan, eClosed, panicked, nev, locks >>

\* Line 117-118 and 167-169: neither a Response nor an Event
LockedHandleResponse_RecvOther(f) ==
    /\ ~panicked
    /\ rpc = "recv"
    /\ ~isResponse_Locked(f) /\ ~isEvent_Locked(f)
    /\ UNCHANGED vars

\* Line 133-136: c.clients.lock.RLock(); c.events.lock.RLock(), each with a deferred
\* RUnlock.  RLock waits while a writer holds clients.lock or waits for it.
LockedHandleResponse_RLock ==
    /\ ~panicked
    /\ rpc = "rlock"
    /\ IsNil(locks.clients.writer)
    /\ ~WaitingWriter
    /\ locks' = [locks EXCEPT !.clients.readers = @ + 1, !.events.readers = @ + 1]
    /\ rpc' = "lookup"
    /\ UNCHANGED << connVars, cur, arrived, evVars, subVars, callerVars, eChan, eClosed,
                    panicked, nev >>

\* Line 138-140: c.clients.clients[r.Id] <- r completes together with the receive of the
\* caller; the loop then calls c.clients.lock.Lock()
LockedHandleResponse_Deliver(c) ==
    /\ ~panicked
    /\ rpc = "deliver"
    /\ cur.Id \in DOMAIN clients
    /\ ~chans[clients[cur.Id]].closed
    /\ cpc[c] \in {"await", "got"}
    /\ ret[c] = RegChan(clients[cur.Id])
    /\ out' = [out EXCEPT ![c] = ResponseOf(cur)]
    /\ chans' = [chans EXCEPT ![clients[cur.Id]].sent = @ + 1]
    /\ cpc' = [cpc EXCEPT ![c] = "got"]
    /\ rpc' = "wlock"
    /\ UNCHANGED << clientId, clients, SessionId, Dead, IsDead, cur, arrived, evVars, subVars,
                    eChan, eClosed, req, reqId, ret, written, panicked, ncalls, nev, locks >>

\* Line 105-106: c.Dead <- true; break.  handleResponse returns and its deferred calls
\* release every lock it holds.
LockedHandleResponse_SignalReturn ==
    /\ ~panicked
    /\ rpc = "signal"
    /\ Dead < DeadCap
    /\ Dead' = Dead + 1
    /\ rpc' = "done"
    /\ locks' = [clients |-> [readers |-> 0,
                              writer |-> IF locks.clients.writer = Some("loop")
                                         THEN Nil ELSE locks.clients.writer],
                 events |-> Unlocked]
    /\ UNCHANGED << clientId, clients, SessionId, IsDead, chans, cur, arrived, evVars, subVars,
                    callerVars, eChan, eClosed, panicked, nev >>

\* ------------------------------------------------------------ application
\* The application reads the liveness signal:  <-c.Dead
ReadDead ==
    /\ ~panicked
    /\ Dead > 0
    /\ Dead' = Dead - 1
    /\ UNCHANGED << clientId, clients, SessionId, IsDead, chans, loopVars, evVars, subVars,
                    callerVars, eChan, eClosed, panicked, nev >>
    /\ UNCHANGED locks

\* -------------------------------------------------------------------- Next
\* Caller tasks: Connection.Request and the read of the channel it returns
CallerSteps(maxCalls) ==
    \/ \E c \in Callers, e \in Envelopes : ncalls < maxCalls /\ Request_Dead(c, e)
    \/ \E c \in Callers, e \in Envelopes : ncalls < maxCalls /\ Request_Alive(c, e)
    \/ \E c \in Callers : Request_NextId(c)
    \/ \E c \in Callers : Request_Session(c)
    \/ \E c \in Callers : Request_Register(c)
    \/ \E c \in Callers : Request_SendOK(c)
    \/ \E c \in Callers : Request_SendFail(c)
    \/ \E c \in Callers : Request_FailSignal(c)
    \/ \E c \in Callers : Request_FailMark(c)
    \/ \E c \in Callers : Request_FailReturn(c)
    \/ \E c \in Callers : Caller_ReceiveErr(c)
    \/ \E c \in Callers : Caller_Done(c)

\* Failure of the transport: the receive loop ends, eChan is closed, handleEvents ends
TransportSteps ==
    \/ handleResponse_ReceiveError
    \/ handleResponse_Signal
    \/ handleResponse_CloseEvents
    \/ handleEvents_Exit

\* The receive loop, fed the response frames the server sends
ResponseSteps(frames) ==
    \/ \E f \in frames : handleResponse_RecvResponse(f)
    \/ \E f \in frames : handleResponse_RecvOther(f)
    \/ handleResponse_Found
    \/ handleResponse_Drop
    \/ \E c \in Callers : handleResponse_Deliver(c)
    \/ handleResponse_Close
    \/ handleResponse_Delete

\* The event path: receive loop to eChan to handleEvents to the callbacks
EventSteps(frames, maxEvents) ==
    \/ \E f \in frames : nev < maxEvents /\ handleResponse_RecvEvent(f)
    \/ handleResponse_Enqueue
    \/ handleEvents_Panic
    \/ handleEvents_NoHandlers
    \/ handleEvents_Dispatch
    \/ \E h \in Handlers : handleEvents_Invoke(h)
    \/ handleEvents_EndRange

\* Application tasks changing the subscription registry
RegistrySteps(keys, maxSubs) ==
    \/ \E k \in keys, cb \in Callbacks : nsub < maxSubs /\ Subscribe(k[1], k[2], k[3], cb)
    \/ \E k \in keys : Unsubscribe(k[1], k[2], k[3])

\* Requests and responses on a connection that also carries a session token
CorrelationFrames ==
    PlainFrames \cup OtherFrames \cup { Frame(1, ResultMap(Some("s1"), Some("abc")), Nil, "", Nil) }

Next ==
    \/ CallerSteps(MaxCalls)
    \/ ResponseSteps(CorrelationFrames)
    \/ TransportSteps
    \/ ReadDead

Spec == Init /\ [][Next]_vars

\* Events and subscriptions: the triples the application subscribes and unsubscribes,
\* and the onEvent frames the server sends
SubKeys == { << "T1", "o1", "h1" >>, << "T1", "o1", "h2" >>, << "T1", "o2", "h1" >>,
             << "T2", "o1", "h1" >> }
SubscribedEventFrames ==
    { Frame(0, Nil, Nil, "onEvent", EventValue(Some(k[1]), Some(k[2]), Some("d1"))) : k \in SubKeys }
    \cup { Frame(0, Nil, Nil, "onEvent", EventValue(Some("T1"), Some("o1"), Some("d2"))) }

NextEvents ==
    \/ EventSteps(SubscribedEventFrames \cup MalformedEventFrames, MaxEvents)
    \/ RegistrySteps(SubKeys, MaxSubs)
    \/ TransportSteps

SpecEvents == Init /\ [][NextEvents]_vars

\* The session token: responses with every kind of sessionId (absent, empty, "s1", "s2"),
\* an error response and an unrecognized frame; one subscription, and events for which
\* nothing is subscribed
SessionIdFrames ==
    SessionFrames
    \cup { Frame(1, ResultMap(Nil, Some("abc")), Nil, "", Nil),
           Frame(1, Nil, AppError, "", Nil),
           Frame(0, Nil, Nil, "ping", Nil) }
SessionKeys == { << "T1", "o1", "h1" >> }
SessionEventFrames ==
    { Frame(0, Nil, Nil, "onEvent", EventValue(Some("T2"), Some("o2"), Some("d1"))) }

\* The event path for events nobody subscribed to
UnsubscribedEventSteps(frames, maxEvents) ==
    \/ \E f \in frames : nev < maxEvents /\ handleResponse_RecvEvent(f)
    \/ handleResponse_Enqueue
    \/ handleEvents_NoHandlers

\* One caller task: Connection.Request and the read of the channel it returns
SoloCallerSteps(c, maxCalls) ==
    \/ \E e \in Envelopes : ncalls < maxCalls /\ Request_Dead(c, e)
    \/ \E e \in Envelopes : ncalls < maxCalls /\ Request_Alive(c, e)
    \/ Request_NextId(c)
    \/ Request_Session(c)
    \/ Request_Register(c)
    \/ Request_SendOK(c)
    \/ Request_SendFail(c)
    \/ Request_FailSignal(c)
    \/ Request_FailMark(c)
    \/ Request_FailReturn(c)
    \/ Caller_ReceiveErr(c)
    \/ Caller_Done(c)

NextSession ==
    \/ SoloCallerSteps("c1", MaxSessionCalls)
    \/ ResponseSteps(SessionIdFrames)
    \/ UnsubscribedEventSteps(SessionEventFrames, MaxEvents)
    \/ RegistrySteps(SessionKeys, MaxSubs)
    \/ TransportSteps

SpecSession == Init /\ [][NextSession]_vars

\* Events of one (type, object) pair, numbered by the server: the k-th onEvent frame it
\* sends carries k as its data
NumberedEvent(t, o, k) == Frame(0, Nil, Nil, "onEvent", EventValue(Some(t), Some(o), Some(k)))
NumberedEventSteps(t, o, maxEvents) ==
    \/ \E k \in 1 .. maxEvents :
          nev < maxEvents /\ k = nev + 1 /\ handleResponse_RecvEvent(NumberedEvent(t, o, k))
    \/ handleResponse_Enqueue
    \/ handleEvents_NoHandlers
    \/ handleEvents_Dispatch
    \/ \E h \in Handlers : handleEvents_Invoke(h)
    \/ handleEvents_EndRange
OrderKeys == { << "T1", "o1", "h1" >>, << "T1", "o1", "h2" >> }

NextOrder ==
    \/ NumberedEventSteps("T1", "o1", MaxOrderEvents)
    \/ RegistrySteps(OrderKeys, MaxSubs)
    \/ TransportSteps

SpecOrder == Init /\ [][NextOrder]_vars

\* Callers with a deadline of their own on a connection that stays up: a caller either
\* reads the channel Request returned or gives up waiting
PatientOrNotCallerSteps(maxCalls) ==
    \/ \E c \in Callers, e \in Envelopes : ncalls < maxCalls /\ Request_Alive(c, e)
    \/ \E c \in Callers : Request_NextId(c)
    \/ \E c \in Callers : Request_Session(c)
    \/ \E c \in Callers : Request_Register(c)
    \/ \E c \in Callers : Request_SendOK(c)
    \/ \E c \in Callers : Caller_Abandon(c)
    \/ \E c \in Callers : Caller_Done(c)

NextAbandon ==
    \/ PatientOrNotCallerSteps(MaxAbandonCalls)
    \/ ResponseSteps(PlainFrames \cup OtherFrames)

SpecAbandon == Init /\ [][NextAbandon]_vars

\* A subscriber whose callback issues a Request and waits for its response, on a
\* connection that stays up: the server sends numbered events for the subscribed pair and
\* answers the requests it has been sent
CallbackFrames ==
    { Frame(id, ResultMap(Nil, Some("abc")), Nil, "", Nil) : id \in 1 .. MaxCallbackEvents }
CallbackKeys == { << "T1", "o1", "h1" >> }
\* The server answers a request that was written and is pending
Answer == \E f \in CallbackFrames :
             f.Id \in DOMAIN clients /\ f.Id \in DOMAIN written /\ handleResponse_RecvResponse(f)
\* The body of the callback: Request on the handleEvents task
CallbackRequestSteps(c) ==
    \/ Request_NextId(c)
    \/ Request_Session(c)
    \/ Request_Register(c)
    \/ Request_SendOK(c)
\* The event path when handlers issue a Request
CallbackEventSteps(t, o, c, maxEvents) ==
    \/ \E k \in 1 .. maxEvents :
          nev < maxEvents /\ k = nev + 1 /\ handleResponse_RecvEvent(NumberedEvent(t, o, k))
    \/ handleResponse_Enqueue
    \/ handleEvents_NoHandlers
    \/ handleEvents_Dispatch
    \/ \E h \in Handlers : handleEvents_InvokeCall(h, c)
    \/ handleEvents_CallbackReturn(c)
    \/ handleEvents_EndRange
\* The receive loop answering
AnswerSteps ==
    \/ Answer
    \/ handleResponse_Found
    \/ \E c \in Callers : handleResponse_Deliver(c)
    \/ handleResponse_Close
    \/ handleResponse_Delete

NextCallback ==
    \/ CallbackRequestSteps("c1")
    \/ CallbackEventSteps("T1", "o1", "c1", MaxCallbackEvents)
    \/ AnswerSteps
    \/ \E k \in CallbackKeys : nsub < 1 /\ Subscribe(k[1], k[2], k[3], "cb1")

SpecCallback == Init /\ [][NextCallback]_vars

\* The lock-guarded revision: callers, the responses the server sends, and the failure
\* of the transport
LockedFrames ==
    { Frame(id, ResultMap(Nil, Some("abc")), Nil, "", Nil) : id \in 1 .. MaxLockedCalls }
    \cup { Frame(1, Nil, AppError, "", Nil), Frame(0, Nil, Nil, "ping", Nil) }

LockedCallerSteps(maxCalls) ==
    \/ \E c \in Callers, e \in Envelopes : ncalls < maxCalls /\ LockedRequest_Call(c, e)
    \/ \E t \in Callers \cup {"loop"} : Locked_Lock(t)
    \/ \E c \in Callers : LockedRequest_Dead(c)
    \/ \E c \in Callers : LockedRequest_Register(c)
    \/ \E c \in Callers : LockedRequest_SendOK(c)
    \/ \E c \in Callers : LockedRequest_SendFail(c)
    \/ \E c \in Callers : LockedRequest_FailReturn(c)
    \/ \E c \in Callers : Caller_ReceiveErr(c)
    \/ \E c \in Callers : Caller_Done(c)

LockedResponseSteps(frames, maxReaders) ==
    \/ \E f \in frames : locks.clients.readers < maxReaders /\ LockedHandleResponse_RecvResponse(f)
    \/ \E f \in frames : LockedHandleResponse_RecvOther(f)
    \/ LockedHandleResponse_RLock
    \/ handleResponse_Found
    \/ handleResponse_Drop
    \/ \E c \in Callers : LockedHandleResponse_Deliver(c)
    \/ handleResponse_ReceiveError
    \/ LockedHandleResponse_SignalReturn

NextLocked ==
    \/ LockedCallerSteps(MaxLockedCalls)
    \/ LockedResponseSteps(LockedFrames, MaxReadLocks)
    \/ ReadDead

SpecLocked == Init /\ [][NextLocked]_vars

\* Several handlers registered under one (type, object) pair, one more under another
\* pair, and events for both pairs
FanKeys == { << "T1", "o1", "h1" >>, << "T1", "o1", "h2" >>, << "T1", "o2", "h1" >> }
FanFrames ==
    { Frame(0, Nil, Nil, "onEvent", EventValue(Some("T1"), Some(o), Some("d1"))) : o \in Objects }
    \cup { Frame(0, Nil, Nil, "onEvent", Nil) }

NextFan ==
    \/ EventSteps(FanFrames, MaxFanEvents)
    \/ RegistrySteps(FanKeys, MaxFanSubs)

SpecFan == Init /\ [][NextFan]_vars

\* The three routes of a frame: one caller, one subscription, and frames of every
\* kind, among them one that is a Response and an Event at once
RouteKeys == { << "T1", "o1", "h1" >> }
RouteFrames ==
    BothShapesFrames
    \cup { Frame(1, ResultMap(Nil, Some("abc")), Nil, "", Nil),
           Frame(0, Nil, Nil, "onEvent", EventValue(Some("T1"), Some("o1"), Some("d1"))),
           Frame(0, Nil, Nil, "onEvent", Nil),
           Frame(0, Nil, Nil, "ping", Nil),
           Frame(1, Nil, Nil, "", Nil),
           [NoFrame EXCEPT !.json = FALSE, !.rOK = FALSE, !.eOK = FALSE] }

NextRoutes ==
    \/ SoloCallerSteps("c1", MaxRouteCalls)
    \/ ResponseSteps(RouteFrames)
    \/ EventSteps(RouteFrames, MaxRouteEvents)
    \/ RegistrySteps(RouteKeys, MaxRouteSubs)
    \/ TransportSteps

SpecRoutes == Init /\ [][NextRoutes]_vars

\* MediaObject.Subscribe: callers whose Request carries the envelope of
\* getSubscribeRequest, the answers of the server (a handlerId, an error, or both) and
\* the failure of the transport
SubscribeFrames ==
    { Frame(id, ResultMap(Nil, Some(h)), Nil, "", Nil) : id \in 1 .. MaxSubscribeCalls, h \in Handlers }
    \cup { Frame(id, Nil, AppError, "", Nil) : id \in 1 .. MaxSubscribeCalls }
    \cup { Frame(1, ResultMap(Nil, Some("h1")), AppError, "", Nil), Frame(0, Nil, Nil, "ping", Nil) }
SubscribeTargets == { << "T1", "o1" >>, << "T2", "o1" >> }

SubscribingCallerSteps(maxCalls) ==
    \/ \E c \in Callers : ncalls < maxCalls /\ Request_Dead(c, NoEnvelope)
    \/ \E c \in Callers : ncalls < maxCalls /\ Request_Alive(c, NoEnvelope)
    \/ \E c \in Callers : Request_NextId(c)
    \/ \E c \in Callers : Request_Session(c)
    \/ \E c \in Callers : Request_Register(c)
    \/ \E c \in Callers : Request_SendOK(c)
    \/ \E c \in Callers : Request_SendFail(c)
    \/ \E c \in Callers : Request_FailSignal(c)
    \/ \E c \in Callers : Request_FailMark(c)
    \/ \E c \in Callers : Request_FailReturn(c)
    \/ \E c \in Callers : Caller_ReceiveErr(c)
    \/ \E c \in Callers, k \in SubscribeTargets, cb \in Callbacks :
          MediaObject_Subscribe_Return(c, k[1], k[2], cb)

NextSubscribe ==
    \/ SubscribingCallerSteps(MaxSubscribeCalls)
    \/ ResponseSteps(SubscribeFrames)
    \/ TransportSteps
    \/ ReadDead

SpecSubscribe == Init /\ [][NextSubscribe]_vars

\* The unlocked float64-id revision: callers, the responses the server sends, and the
\* failure of the transport
FloatFrames ==
    { Frame(id, ResultMap(Nil, Some("abc")), Nil, "", Nil) : id \in 1 .. MaxFloatCalls }
    \cup { Frame(0, Nil, Nil, "ping", Nil) }

FloatCallerSteps(maxCalls) ==
    \/ \E c \in Callers, e \in Envelopes : ncalls < maxCalls /\ FloatRequest_Dead(c, e)
    \/ \E c \in Callers, e \in Envelopes : ncalls < maxCalls /\ Request_Alive(c, e)
    \/ \E c \in Callers : FloatRequest_IncLoad(c)
    \/ \E c \in Callers : FloatRequest_IncStore(c)
    \/ \E c \in Callers : FloatRequest_SetId(c)
    \/ \E c \in Callers : Request_Session(c)
    \/ \E c \in Callers : FloatRequest_Register(c)
    \/ \E c \in Callers : FloatRequest_SendOK(c)
    \/ \E c \in Callers : Request_SendFail(c)
    \/ \E c \in Callers : Request_FailSignal(c)
    \/ \E c \in Callers : Request_FailMark(c)
    \/ \E c \in Callers : FloatRequest_FailReturn(c)
    \/ \E c \in Callers : Caller_ReceiveErr(c)
    \/ \E c \in Callers : Caller_Done(c)

NextFloat ==
    \/ FloatCallerSteps(MaxFloatCalls)
    \/ ResponseSteps(FloatFrames)
    \/ handleResponse_ReceiveError
    \/ FloatHandleResponse_SignalReturn
    \/ ReadDead

SpecFloat == Init /\ [][NextFloat]_vars

\* Scheduling: every task that can take a step of the program eventually takes one.
\* Nothing is assumed of the server, of the transport or of callers starting new calls.
CallerProgress(c) ==
    \/ Request_NextId(c)
    \/ Request_Session(c)
    \/ Request_Register(c)
    \/ Request_SendOK(c) \/ Request_SendFail(c)
    \/ Request_FailSignal(c)
    \/ Request_FailMark(c)
    \/ Request_FailReturn(c)
    \/ Caller_ReceiveErr(c)
LoopProgress ==
    \/ handleResponse_Signal
    \/ handleResponse_CloseEvents
    \/ handleResponse_Found
    \/ handleResponse_Drop
    \/ \E c \in Callers : handleResponse_Deliver(c)
    \/ handleResponse_Close
    \/ handleResponse_Delete
    \/ handleEvents_Exit

FairSpec ==
    /\ Spec
    /\ \A c \in Callers : WF_vars(CallerProgress(c))
    /\ WF_vars(LoopProgress)

\* The same scheduling for callers that may stop waiting; giving up is the caller's choice
FairAbandon ==
    /\ SpecAbandon
    /\ \A c \in Callers : WF_vars(CallerProgress(c))
    /\ WF_vars(LoopProgress)

\* Scheduling of the callback workload: every task of the program that can take a step
\* eventually takes one, and the server answers every request it has been sent once the
\* receive loop is reading
FairCallback ==
    /\ SpecCallback
    /\ WF_vars(CallbackRequestSteps("c1"))
    /\ WF_vars(AnswerSteps)
    /\ WF_vars(handleResponse_Enqueue)
    /\ WF_vars(\/ handleEvents_NoHandlers \/ handleEvents_Dispatch \/ handleEvents_EndRange
               \/ \E h \in Handlers : handleEvents_InvokeCall(h, "c1")
               \/ handleEvents_CallbackReturn("c1"))

\* ------------------------------------------------------------ vocabulary
\* Caller c holds a channel registered by Request and has read nothing from it yet
Pending(c) == cpc[c] = "await" /\ ret[c].kind = "reg"
\* The id caller c's call wrote into its request
IdOf(c) == Val(req[c].id).v
\* Caller c has read an outcome with the ConnectionLost code
Lost(c) ==
    /\ cpc[c] = "got"
    /\ ~IsNil(out[c].Error)
    /\ Val(out[c].Error).Code = ConnectionLost
\* The receive loop has observed a read error
LoopFailed == rpc \in {"signal", "close", "done"}
\* The last step was taken by Request for caller c on the dead-connection path
DeadCall(c) == cpc[c] = "idle" /\ IsDead /\ cpc'[c] # "idle"

\* ---------------------------------------------------------------- claims

\* C1: when IsDead is true as Request is called, Request writes nothing on the websocket
\* and returns a channel that holds exactly one Response, whose Error.Code is
\* ConnectionLost, ready to be read; this for every envelope, with or without an "id".
C1_DeadShortCircuit ==
    [][ \A c \in Callers : DeadCall(c) =>
          /\ written' = written
          /\ cpc'[c] = "await"
          /\ ret'[c].kind = "err"
          /\ Len(ret'[c].buf) = 1
          /\ ~IsNil(ret'[c].buf[1].Error)
          /\ Val(ret'[c].buf[1].Error).Code = -1
          /\ IsNil(ret'[c].buf[1].Result) ]_vars

\* A call made without an "id" on a dead connection has returned its channel
C1_Witness ==
    \E c \in Callers :
        /\ cpc[c] = "await" /\ ret[c].kind = "err" /\ reqId[c] = 0
        /\ IsNil(req[c].id) /\ IsDead

\* C2: every Call that is pending when the receive loop observes a read error is
\* eventually resolved with a ConnectionLost outcome.
C2_PendingResolvedOnFailure ==
    \A c \in Callers : (LoopFailed /\ Pending(c)) ~> Lost(c)

\* The receive loop takes the step that sends r on a caller's channel
DeliverStep == rpc = "deliver" /\ rpc' = "closech"
\* A response for this id has been delivered and its channel closed
Resolved(id) == \E n \in DOMAIN chans : chans[n].id = id /\ chans[n].closed

\* C3: for an id registered by Request, the first Response frame carrying it is
\* delivered unchanged on the channel registered under that id and the id is then
\* removed from the pending map; a later Response frame with the same id is dropped
\* and delivers nothing to any waiter.
C3_FirstDeliveredLaterDropped ==
    [][ /\ (rpc = "lookup" /\ rpc' # rpc /\ cur.Id \in DOMAIN clients) => rpc' = "deliver"
        /\ DeliverStep =>
             \E c \in Callers :
                /\ ret[c] = RegChan(clients[cur.Id])
                /\ chans[clients[cur.Id]].id = cur.Id
                /\ out'[c] = [Id |-> cur.Id, Result |-> cur.Result, Error |-> cur.Error]
                /\ \A d \in Callers \ {c} : out'[d] = out[d]
        /\ (rpc = "delete" /\ rpc' # rpc) => cur.Id \notin DOMAIN clients'
        /\ (rpc = "lookup" /\ rpc' # rpc /\ Resolved(cur.Id)) =>
             (rpc' = "recv" /\ out' = out /\ chans' = chans) ]_vars

\* A second Response frame for an id that was already resolved is being looked up
C3_Witness ==
    /\ rpc = "lookup"
    /\ \E n \in DOMAIN chans : chans[n].id = cur.Id /\ chans[n].sent = 1 /\ chans[n].closed

\* C4: the channel a Request call returns is the one this call registered under the id
\* it wrote into its request, never nil, and a Response is read only by the caller
\* whose request carries the Response's id.
C4_OwnChannel ==
    \A c \in Callers :
        /\ ret[c].kind # "nil"
        /\ ret[c].kind = "reg" =>
             /\ chans[ret[c].ch].owner = c
             /\ chans[ret[c].ch].id = IdOf(c)
             /\ cpc[c] = "got" => out[c].Id = IdOf(c)

\* Two calls are pending at once, and one of them has read its own response
C4_Witness ==
    \E c, d \in Callers :
        /\ c # d
        /\ cpc[c] = "got" /\ ret[c].kind = "reg" /\ out[c].Id = IdOf(c)
        /\ Pending(d)
        /\ IdOf(d) < IdOf(c)

\* C5: the ids written into the requests are pairwise distinct and strictly positive,
\* and an id is assigned to one call only, for the lifetime of the connection.
C5_UniqueIds ==
    /\ \A k \in DOMAIN written : k > 0 /\ written[k] = 1
    /\ \A m, n \in DOMAIN chans : m # n => chans[m].id # chans[n].id
    /\ \A c, d \in Callers : (c # d /\ reqId[c] > 0) => reqId[c] # reqId[d]
    /\ \A c \in Callers : reqId[c] <= clientId

\* Two concurrent calls have both written their request
C5_Witness ==
    /\ \A c \in Callers : Pending(c)
    /\ Cardinality(DOMAIN written) = 2

\* C6: over its whole lifetime the channel Request returns carries exactly one outcome:
\* never more than one value is sent on it, and once the transport has failed (the
\* receive loop, the only sender, has ended) one has been sent.
C6_ExactlyOneOutcome ==
    /\ \A n \in DOMAIN chans : chans[n].sent <= 1
    /\ \A c \in Callers :
         (rpc = "done" /\ ret[c].kind = "reg") => chans[ret[c].ch].sent = 1

\* The frame the loop holds carries an error object and no result
ErrorOnly(f) == IsNil(f.Result) /\ ~IsNil(f.Error)

\* C7: a frame with a pending id k, an error object and no result is classified as a
\* Response and delivered to the caller of request k with exactly its code, message and
\* data; it does not mark the connection dead and leaves every other pending Call alone.
C7_ApplicationError ==
    /\ \A f \in CorrelationFrames :
         (f.json /\ f.rOK /\ f.Id > 0 /\ ErrorOnly(f)) => Response_unmarshal(f)
    /\ [][ (rpc \in {"lookup", "deliver", "closech", "delete"} /\ rpc' # rpc /\ ErrorOnly(cur)) =>
            /\ IsDead' = IsDead
            /\ \A k \in (DOMAIN clients) \ {cur.Id} : k \in DOMAIN clients' /\ clients'[k] = clients[k]
            /\ DeliverStep =>
                 \E c \in Callers :
                    /\ ~IsNil(req[c].id) /\ IdOf(c) = cur.Id
                    /\ out'[c].Id = cur.Id
                    /\ IsNil(out'[c].Result)
                    /\ Val(out'[c].Error) = [Code |-> 40101, Message |-> "X", Data |-> <<"Y">>]
                    /\ \A d \in Callers \ {c} :
                         out'[d] = out[d] /\ cpc'[d] = cpc[d] /\ ret'[d] = ret[d] ]_vars

\* A caller has read an application error while another call is still pending on a
\* connection that is alive
C7_Witness ==
    \E c, d \in Callers :
        /\ c # d
        /\ cpc[c] = "got" /\ ret[c].kind = "reg"
        /\ ~IsNil(out[c].Error) /\ Val(out[c].Error).Code = 40101
        /\ Pending(d) /\ IdOf(d) \in DOMAIN clients
        /\ ~IsDead

\* The receive loop takes in a Response frame / drops the frame it holds
RecvStep == rpc = "recv" /\ rpc' = "lookup"
DropStep == rpc = "lookup" /\ rpc' = "recv"
\* Dropping the frame delivers nothing and changes neither map, nor the liveness flag
DropHasNoEffect ==
    DropStep => /\ cur.Id \notin DOMAIN clients
                /\ out' = out /\ cpc' = cpc /\ ret' = ret /\ chans' = chans
                /\ clients' = clients
                /\ subscribers' = subscribers
                /\ IsDead' = IsDead /\ Dead' = Dead
                /\ SessionId' = SessionId
                /\ ~panicked'
\* Taking in a frame for an id that was resolved before (so the frame will be dropped)
RecvResolved == RecvStep /\ Resolved(cur'.Id)
RecvDeliversNothing ==
    RecvStep => /\ out' = out /\ cpc' = cpc /\ ret' = ret /\ chans' = chans
                /\ clients' = clients
                /\ subscribers' = subscribers
                /\ IsDead' = IsDead /\ Dead' = Dead
                /\ ~panicked'

\* C8 as stated: a Response frame whose id is not in the pending map has no observable
\* effect: nothing is delivered, the pending map, SessionId, the subscription registry
\* and the liveness flag are unchanged, and the receive loop does not crash.
C8_UnknownIdNoEffect ==
    [][ /\ DropHasNoEffect
        /\ RecvDeliversNothing
        /\ RecvResolved => SessionId' = SessionId ]_vars

\* C8 amended: a Response frame whose id is not in the pending map delivers nothing,
\* leaves the pending map, the subscription registry and the liveness flag unchanged and
\* does not crash the receive loop; SessionId changes only if the frame's result carries
\* a non-empty sessionId different from it, and then becomes that sessionId.
C8_UnknownIdOnlySession ==
    [][ /\ DropHasNoEffect
        /\ RecvDeliversNothing
        /\ RecvResolved =>
             IF /\ ~IsNil(cur'.Result)
                /\ ~IsNil(Val(cur'.Result).sessionId)
                /\ Val(Val(cur'.Result).sessionId) \notin {"", SessionId}
             THEN SessionId' = Val(Val(cur'.Result).sessionId)
             ELSE SessionId' = SessionId ]_vars

\* A frame for an id resolved before, carrying a sessionId, is in the loop's hands, and
\* the SessionId is the one it carried
C8_Witness ==
    /\ rpc = "lookup"
    /\ Resolved(cur.Id)
    /\ cur.Id \notin DOMAIN clients
    /\ SessionOf(cur) = Some("s1")
    /\ SessionId = "s1"
    /\ \E c \in Callers : cpc[c] = "got" /\ out[c].Id = cur.Id /\ SessionOf(out[c]) = Nil

\* The callback registered under (t, o, h), as a set (empty when none is)
CallbackOf(t, o, h) ==
    IF t \in DOMAIN subscribers /\ o \in DOMAIN subscribers[t] /\ h \in DOMAIN subscribers[t][o]
    THEN { subscribers[t][o][h] } ELSE {}
\* handleEvents takes the next event from eChan / calls a handler / ends the range
TakeStep == epc = "range" /\ Len(eChan) > 0 /\ eChan' = Tail(eChan)
InvokeStep == Len(invoked') = Len(invoked) + 1
Last(q) == q[Len(q)]
EndRangeStep == epc = "handlers" /\ epc' = "range"
\* The fields of an onEvent frame
FrameType(f) == Val(f.Value).type
FrameObject(f) == Val(f.Value).object
FrameData(f) == Val(f.Value).data

\* C9: with cb registered by Subscribe(T, O, H, cb), an onEvent frame with type T and
\* object O causes cb to be invoked with the frame's data; cb is invoked for no frame
\* whose type and object are not those it is registered under.
C9_EventRouting ==
    [][ /\ TakeStep =>
             \A k \in SubKeys :
                (/\ CallbackOf(k[1], k[2], k[3]) # {}
                 /\ \E d \in {"d1", "d2"} :
                       Head(eChan).Value = EventValue(Some(k[1]), Some(k[2]), Some(d)))
                => (epc' = "handlers" /\ ecur' = Head(eChan) /\ k[3] \in rangeKeys' /\ visited' = {})
        /\ InvokeStep =>
             /\ epc = "handlers"
             /\ Last(invoked').cb \in CallbackOf(Last(invoked').type, Last(invoked').object,
                                                 Last(invoked').handler)
             /\ Some(Last(invoked').type) = FrameType(ecur)
             /\ Some(Last(invoked').object) = FrameObject(ecur)
             /\ Some(Last(invoked').data) = FrameData(ecur)
             /\ Last(invoked').handler \in visited' \ visited
        /\ EndRangeStep =>
             \A h \in rangeKeys :
                CallbackOf(Val(FrameType(ecur)), Val(FrameObject(ecur)), h) # {} => h \in visited ]_vars

\* A callback has been invoked for an event of (T1, o1) while another callback is
\* registered for the same type under another object
C9_Witness ==
    \E i \in DOMAIN invoked :
        /\ invoked[i].type = "T1" /\ invoked[i].object = "o1" /\ invoked[i].data = "d2"
        /\ CallbackOf("T1", "o2", "h1") # {}
        /\ invoked[i].cb \notin CallbackOf("T1", "o2", "h1")

\* C10: once Unsubscribe(T, O, H) has returned, and until the triple is subscribed again,
\* a dispatch for (T, O) that starts does not range over H, and no handler call is made
\* for (T, O, H) with the callback that was removed.
C10_NoInvokeAfterUnsubscribe ==
    [][ /\ (TakeStep /\ epc' = "handlers") =>
             \A u \in unsubbed :
                (Some(u[1]) = FrameType(ecur') /\ Some(u[2]) = FrameObject(ecur')) => u[3] \notin rangeKeys'
        /\ InvokeStep =>
             << Last(invoked').type, Last(invoked').object, Last(invoked').handler,
                Last(invoked').cb >> \notin unsubbed ]_vars

\* A dispatch for (T, O) is under way, it has called a handler, and a handler of (T, O)
\* that was unsubscribed before the dispatch started is not part of it
C10_Witness ==
    /\ epc = "handlers"
    /\ visited # {}
    /\ \E u \in unsubbed :
          /\ Some(u[1]) = FrameType(ecur) /\ Some(u[2]) = FrameObject(ecur)
          /\ u[3] \notin rangeKeys

\* C11: IsDead starts false, and once it is true it stays true: no step (Request on
\* either path, a later successful receive, a Response frame, a read of Dead) resets it.
C11_DeadIsForever ==
    /\ ~IsDead
    /\ [][IsDead => IsDead']_vars

\* The connection was marked dead by a failed write, a caller has had its ConnectionLost
\* outcome, and the receive loop has taken in a Response frame since
C11_Witness ==
    /\ IsDead
    /\ rpc = "lookup"
    /\ \E c \in Callers : Lost(c)

\* The sessionId a frame's result carries, as a set (empty when it has none)
FrameSession(f) ==
    IF IsNil(f.Result) \/ IsNil(Val(f.Result).sessionId) THEN {}
    ELSE { Val(Val(f.Result).sessionId) }

\* C12: SessionId changes only in the step that takes in a Response frame whose
\* result.sessionId is a non-empty string different from SessionId, and then it becomes
\* that string; every other step leaves it unchanged, and once set it is never empty.
C12_SessionIdChanges ==
    [][ /\ SessionId' # SessionId =>
             (RecvStep /\ SessionId' # "" /\ FrameSession(cur') = {SessionId'})
        /\ RecvStep =>
             IF FrameSession(cur') \subseteq {"", SessionId}
             THEN SessionId' = SessionId
             ELSE FrameSession(cur') = {SessionId'}
        /\ SessionId # "" => SessionId' # "" ]_vars

\* The token was replaced ("s1", carried by the request in flight, then "s2") on a
\* connection that has also seen an event and a subscription
C12_Witness ==
    /\ SessionId = "s2"
    /\ \E c \in Callers : req[c].sessionId = Some("s1")
    /\ nev > 0
    /\ nsub > 0

\* Request attaches the token / writes the request
AttachStep(c) == cpc[c] = "sess" /\ cpc'[c] = "reg"
WriteStep(c) == cpc[c] = "send" /\ written' # written

ExactlyOneOf(r) == IsNil(r.Result) # IsNil(r.Error)

\* C14: a frame is classified as a Response only if it has a positive id and exactly one
\* of result and error; a frame with both, or with neither, is never delivered to a
\* waiter: what a caller reads from the channel of its call has exactly one of the two.
C14_ExactlyOneOfResultError ==
    \A c \in Callers :
        (cpc[c] = "got" /\ ret[c].kind = "reg") => (out[c].Id > 0 /\ ExactlyOneOf(out[c]))

\* C15: a malformed inbound frame is discarded: no task crashes, no caller and no
\* callback is reached, both registries are unchanged and the tasks go on to later
\* frames; in particular for an onEvent frame without a value object, a string type,
\* a string object or an object-valued data.
C15_MalformedDiscarded ==
    [][ (TakeStep /\ Head(eChan) \in MalformedEventFrames) =>
            /\ ~panicked'
            /\ invoked' = invoked
            /\ out' = out
            /\ subscribers' = subscribers
            /\ clients' = clients
            /\ epc' = "range"
            /\ rpc' = rpc ]_vars

\* The statement a task is at is an access to the pending-Call map:
\* a caller at the insert of line 526 or the delete of line 537,
\* the receive loop at the lookup of line 433 or 439 or the delete of line 440
CallerAtMap(c) == cpc[c] \in {"reg", "fdelete"}
LoopAtMap == rpc \in {"lookup", "closech", "delete"}

\* C16: accesses to the pending-Call map are mutually exclusive between the receive task
\* and the caller tasks: in no reachable state are the receive task and a caller both at
\* an access (insert, lookup, delete) of the map with nothing ordering the two.
C16_MapAccessExclusive ==
    ~(LoopAtMap /\ \E c \in Callers : CallerAtMap(c))

\* The Response for id has been handed to the caller waiting for it
Delivered(id) == \E n \in DOMAIN chans : chans[n].id = id /\ chans[n].sent > 0

\* C17: frames are processed in arrival order: if the Response for pending id a
\* arrived before the Response for pending id b, the caller of b has not received its
\* outcome unless the caller of a has received its own.
C17_ArrivalOrder ==
    \A i, j \in DOMAIN arrived :
        (i < j /\ Delivered(arrived[j])) => Delivered(arrived[i])

\* The server answered two pending calls in the reverse order of their ids, and both
\* callers have their outcome
C17_Witness ==
    /\ arrived = << 2, 1 >>
    /\ Delivered(1) /\ Delivered(2)
    /\ \A c \in Callers : cpc[c] = "got" /\ ret[c].kind = "reg"

\* C18: for a fixed (eventType, objectId) and a fixed subscribed callback, the callback
\* is invoked in the order in which the onEvent frames arrived: with the frames numbered
\* in arrival order, a later invocation never carries a smaller number than an earlier
\* one.
C18_EventOrder ==
    \A i, j \in DOMAIN invoked :
        (i < j /\ invoked[i].type = invoked[j].type /\ invoked[i].object = invoked[j].object) =>
            invoked[i].data <= invoked[j].data

\* One callback has been invoked for the first and then for the second frame
C18_Witness ==
    \E i, j \in DOMAIN invoked :
        /\ i < j
        /\ invoked[i].handler = invoked[j].handler /\ invoked[i].cb = invoked[j].cb
        /\ invoked[i].data = 1 /\ invoked[j].data = 2

\* C19: when a receive on the websocket fails, the receive loop marks the connection
\* dead and then terminates, whatever the callers do and whether or not anyone reads Dead.
C19_LoopTerminates == (rpc = "signal") ~> (IsDead /\ rpc = "done")

\* The receive loop has sent the Response for id k and is at the close or the delete
\* that follow the send (lines 439-440)
LoopRemoving(k) == rpc \in {"closech", "delete"} /\ cur.Id = k
\* The caller c holds the outcome of its call, or the errchan that holds it
HasOutcome(c) == cpc[c] = "got" \/ (cpc[c] = "await" /\ ret[c].kind = "err")

\* C20 as stated: the pending-Call map holds an entry for id k only if a Request call was
\* assigned k and no outcome has been delivered for it yet: no entry remains for a call
\* whose response was delivered or whose write failed.
C20_EntryOnlyWhilePending ==
    /\ \A k \in DOMAIN clients :
          /\ k \in 1 .. clientId
          /\ chans[clients[k]].id = k
          /\ chans[clients[k]].sent = 0
    /\ \A c \in Callers : HasOutcome(c) => reqId[c] \notin DOMAIN clients

\* C20 amended: the same, except that the entry of a call whose response has just been
\* delivered is still in the map while the receive loop is between the send of line 437
\* and the delete of line 440 for that id.
C20_EntryUntilDeleted ==
    /\ \A k \in DOMAIN clients :
          /\ k \in 1 .. clientId
          /\ chans[clients[k]].id = k
          /\ chans[clients[k]].sent = 0 \/ (chans[clients[k]].sent = 1 /\ LoopRemoving(k))
    /\ \A c \in Callers :
          (HasOutcome(c) /\ reqId[c] \in DOMAIN clients) =>
              (ret[c].kind = "reg" /\ LoopRemoving(reqId[c]))

\* One call has had its response and its entry is gone, another has had its write fail
\* and its entry is gone, on a connection that has assigned both ids
C20_Witness ==
    \E c, d \in Callers :
        /\ cpc[c] = "got" /\ ret[c].kind = "reg" /\ reqId[c] \notin DOMAIN clients
        /\ HasOutcome(d) /\ ret[d].kind = "err" /\ reqId[d] > 0 /\ reqId[d] \notin DOMAIN clients
        /\ clientId = 2

\* The registered (triple, callback) pairs of a registry
Pairs(subs) ==
    { p \in EventTypes \X Objects \X Handlers \X Callbacks :
        /\ p[1] \in DOMAIN subs
        /\ p[2] \in DOMAIN subs[p[1]]
        /\ p[3] \in DOMAIN subs[p[1]][p[2]]
        /\ subs[p[1]][p[2]][p[3]] = p[4] }

\* C21: Subscribe(T, O, H, cb) leaves exactly one callback under (T, O, H), namely cb,
\* whatever was registered there before, and leaves the entries under every other triple
\* unchanged; an event for (T, O) dispatched afterwards calls, for handler H, the one
\* callback registered under (T, O, H) at that moment, once per event.
C21_SubscribeOverwrites ==
    [][ /\ \A k \in SubKeys, cb \in Callbacks :
             Subscribe(k[1], k[2], k[3], cb) =>
                Pairs(subscribers') =
                    { p \in Pairs(subscribers) : << p[1], p[2], p[3] >> # k }
                    \cup { << k[1], k[2], k[3], cb >> }
        /\ InvokeStep =>
             LET i == invoked'[Len(invoked')]
             IN  /\ { p[4] : p \in { q \in Pairs(subscribers) :
                                       << q[1], q[2], q[3] >> = << i.type, i.object, i.handler >> } }
                      = { i.cb }
                 /\ i.handler \notin visited ]_vars

\* The triple (T1, o1, h1) was subscribed twice and nothing else was; the event for
\* (T1, o1) then called cb2, the callback of the second Subscribe
C21_Witness ==
    /\ nsub = 2
    /\ Pairs(subscribers) = { << "T1", "o1", "h1", "cb2" >> }
    /\ DOMAIN subscribers = {"T1"} /\ DOMAIN subscribers["T1"] = {"o1"}
    /\ Len(invoked) = 1 /\ invoked[1].cb = "cb2" /\ invoked[1].handler = "h1"
    /\ unsubbed = {}

\* C22: Unsubscribe(T, O, H) for a triple that is not registered (unknown event type,
\* unknown object id or unknown handler id) leaves the registered (triple, callback)
\* pairs as they were, and does not crash.
C22_UnsubscribeUnknownIsNoOp ==
    /\ [](\A k \in SubKeys :
            ~Registered(k[1], k[2], k[3]) =>
               Pairs(UnsubscribeMap(subscribers, k[1], k[2], k[3])) = Pairs(subscribers))
    /\ [][ \A k \in SubKeys :
             (~Registered(k[1], k[2], k[3]) /\ Unsubscribe(k[1], k[2], k[3])) =>
                /\ Pairs(subscribers') = Pairs(subscribers)
                /\ unsubbed' = unsubbed
                /\ ~panicked' ]_vars

\* A registry in which Unsubscribe can be called with an unknown handler id, with an
\* unknown object id and with an unknown event type, next to a registered triple
C22_Witness ==
    /\ Pairs(subscribers) = { << "T1", "o1", "h1", "cb1" >> }
    /\ ~Registered("T1", "o1", "h2") /\ "o1" \in DOMAIN subscribers["T1"]
    /\ "o2" \notin DOMAIN subscribers["T1"]
    /\ "T2" \notin DOMAIN subscribers
    /\ ENABLED Unsubscribe("T1", "o1", "h2")
    /\ ENABLED Unsubscribe("T1", "o2", "h1")
    /\ ENABLED Unsubscribe("T2", "o1", "h1")

\* No callback is registered for the pair (t, o)
NoHandlerFor(t, o) == \A p \in Pairs(subscribers) : << p[1], p[2] >> # << t, o >>

\* C23: when handleEvents takes a well-formed event whose (type, object) pair has no
\* registered handler, no callback is invoked, the registry and the pending map are
\* unchanged, the program does not crash, and the event loop stays able to take the next
\* event: eChan has room again and the loop is at its range, or in a range over an empty
\* handler map, which it can leave at once.
C23_NoHandlerIsNoOp ==
    /\ [][ (TakeStep /\ WellFormed(Head(eChan))
                     /\ NoHandlerFor(EvType(Head(eChan)), EvObject(Head(eChan)))) =>
             /\ invoked' = invoked
             /\ subscribers' = subscribers
             /\ clients' = clients
             /\ ~panicked'
             /\ rpc' = rpc
             /\ Len(eChan') < EChanCap
             /\ epc' = "range" \/ (epc' = "handlers" /\ rangeKeys' = {}) ]_vars
    /\ []((epc = "handlers" /\ rangeKeys = {} /\ ~panicked) => ENABLED handleEvents_EndRange)

\* An event was taken and discarded without a call and without a crash, on a
\* connection that has two subscriptions by now, and the receive loop is back at
\* its read
C23_Witness ==
    /\ nev = 1 /\ eChan = << >> /\ rpc = "recv" /\ epc = "range"
    /\ invoked = << >>
    /\ ~panicked
    /\ Cardinality(Pairs(subscribers)) = 2

\* C24: a Request call whose write fails returns its channel, whatever the Dead channel
\* holds at that moment: a caller that has reached the signal of line 534 gets past it
\* and has the channel in hand.
C24_RequestAlwaysReturns ==
    \A c \in Callers : (cpc[c] = "fsignal") ~> (cpc[c] = "await" \/ panicked)

\* Caller c holds the errchan of lines 539-548, filled with the ConnectionLost response
\* for its own request id
HoldsLost(c) ==
    /\ cpc[c] = "await"
    /\ ret[c].kind = "err"
    /\ Len(ret[c].buf) = 1
    /\ ret[c].buf[1].Id = reqId[c]
    /\ ~IsNil(ret[c].buf[1].Error)
    /\ Val(ret[c].buf[1].Error).Code = ConnectionLost

\* C25: when the write of a request fails in Request while the connection is alive, the
\* connection becomes dead, the entry registered for the request's id is removed from
\* the pending map and the call returns a channel that yields one Response with that id
\* and the ConnectionLost code; the step that removes the entry leaves the entries of
\* the other pending calls as they were.
C25_WriteFailureResolves ==
    /\ \A c \in Callers :
          (cpc[c] = "fsignal" /\ ~IsDead) ~>
              ((IsDead /\ reqId[c] \notin DOMAIN clients /\ HoldsLost(c)) \/ panicked)
    /\ [][ \A c \in Callers :
             (cpc[c] = "fdelete" /\ cpc'[c] # cpc[c]) =>
                \A k \in (DOMAIN clients) \ {reqId[c]} :
                    k \in DOMAIN clients' /\ clients'[k] = clients[k] ]_vars

\* C26: delivering a response never stalls the receive loop: once the loop is at the
\* send of line 437 for request k it gets past it, whether or not the caller of k is
\* receiving on its channel, and so goes on to the frames that follow.
C26_DeliveryNeverStalls ==
    (rpc = "deliver") ~> (rpc = "closech" \/ panicked)

\* C27: a subscriber callback that issues a Request and waits for its response returns,
\* given that the server answers the request, however many onEvent frames arrive before
\* the answer.
C27_CallbackReturns ==
    (epc = "callback") ~> (epc # "callback" \/ panicked)

\* C28: in the lock-guarded revision the receive loop keeps running after it delivers
\* a response: when the loop, having delivered, asks for the write lock of line 140, no
\* read lock is held on clients.lock, so that the lock is granted as soon as no Request
\* holds it and the loop goes on to its next frame.
C28_LocksNeverBlock == rpc = "wlock" => locks.clients.readers = 0

\* C29: in the unlocked float64-id revision, concurrent Request calls on a live
\* connection each write a distinct id into their request, and the channel a call
\* returns is the one this call registered under the id it wrote.
C29_ConcurrentRequestsKeepApart ==
    /\ \A k \in DOMAIN written : written[k] = 1
    /\ \A c \in Callers :
          ret[c].kind = "reg" =>
             /\ chans[ret[c].ch].owner = c
             /\ chans[ret[c].ch].id = IdOf(c)

\* C30: in the float64-id revisions a Request made on a dead connection with an
\* envelope that has no "id" field does not crash the caller and returns a channel
\* that yields a Response with the ConnectionLost code.
C30_DeadRequestWithoutId ==
    [][ \A c \in Callers :
          (IsDead /\ cpc[c] = "idle" /\ ncalls' = ncalls + 1 /\ IsNil(req'[c].id)) =>
              /\ ~panicked'
              /\ ret'[c].kind = "err"
              /\ Val(ret'[c].buf[1].Error).Code = ConnectionLost ]_vars

\* C31: in the lock-guarded revision a frame with a pending id, an error object and no
\* result is classified as a Response by the receive loop (and so delivered to the
\* caller whose request the server rejected): whenever the loop is at its read and the
\* id of such a frame is in the pending-Call map, its request written, the Response
\* test of line 117 holds for the frame.
C31_LockedErrorIsResponse ==
    \A f \in LockedFrames :
        (rpc = "recv" /\ f.Id \in DOMAIN clients /\ f.Id \in DOMAIN written /\ ErrorOnly(f))
            => isResponse_Locked(f)

\* C32: MediaObject.Subscribe registers its callback only when the subscribe Call
\* resolved successfully: when the outcome it read carries an error (an application
\* error or ConnectionLost), it does not crash and the registry is left as it was.
C32_SubscribeOnlyOnSuccess ==
    [][ \A c \in Callers :
          (cpc[c] = "got" /\ cpc'[c] # "got" /\ ~IsNil(out[c].Error)) =>
              (~panicked' /\ subscribers' = subscribers) ]_vars

\* The handler calls made since the range of the current event started: the last
\* Cardinality(visited) records of the log
DispatchCalls == { i \in DOMAIN invoked : i > Len(invoked) - Cardinality(visited) }

\* C33: when several handlers are registered for the same (eventType, objectId), one
\* onEvent frame for that pair invokes each of them exactly once with the payload of
\* the frame, and invokes no callback registered under another pair: when the range
\* over the handlers of an event ends, every handler that was registered when it
\* started and still is has exactly one call among the calls of this event, no handler
\* has two, and each of these calls carries the type, object and data of the event and
\* a handler id of its pair.
C33_EachHandlerOnce ==
    [][ EndRangeStep =>
          /\ Cardinality(DispatchCalls) = Cardinality(visited)
          /\ \A h \in rangeKeys \cap DOMAIN ObjHandlers :
                Cardinality({ i \in DispatchCalls : invoked[i].handler = h }) = 1
          /\ \A i, j \in DispatchCalls : invoked[i].handler = invoked[j].handler => i = j
          /\ \A i \in DispatchCalls :
                /\ invoked[i].type = EvType(ecur)
                /\ invoked[i].object = EvObject(ecur)
                /\ invoked[i].data = EvData(ecur)
                /\ invoked[i].handler \in visited ]_vars

\* Both handlers of (T1, o1) have been called for one event, with the same payload and
\* two different callbacks, while a callback is registered under (T1, o2)
C33_Witness ==
    /\ epc = "handlers"
    /\ visited = {"h1", "h2"}
    /\ Len(invoked) = 2
    /\ invoked[1].data = invoked[2].data
    /\ invoked[1].cb # invoked[2].cb
    /\ invoked[1].object = "o1"
    /\ CallbackOf("T1", "o2", "h1") # {}

\* C34: Unsubscribe(T, O, H) removes only the entry of the exact triple: the callbacks
\* registered under another handler id of (T, O) or under another pair are registered
\* afterwards as before, and an event dispatched afterwards for their pair ranges over
\* them and calls each one that is still registered.
C34_UnsubscribeOnlyTheTriple ==
    [][ /\ \A k \in FanKeys :
             Unsubscribe(k[1], k[2], k[3]) =>
                Pairs(subscribers') =
                   { p \in Pairs(subscribers) : << p[1], p[2], p[3] >> # k }
        /\ (TakeStep /\ epc' = "handlers") =>
             rangeKeys' = { h \in Handlers :
                              Registered(EvType(Head(eChan)), EvObject(Head(eChan)), h) }
        /\ EndRangeStep =>
             \A h \in Handlers :
                Registered(EvType(ecur), EvObject(ecur), h) /\ h \in rangeKeys => h \in visited ]_vars

\* After Unsubscribe(T1, o1, h1) an event for (T1, o1) has been dispatched to the
\* callback still registered under (T1, o1, h2)
C34_Witness ==
    /\ epc = "handlers"
    /\ EvType(ecur) = "T1" /\ EvObject(ecur) = "o1"
    /\ rangeKeys = {"h2"}
    /\ visited = {"h2"}
    /\ \E u \in unsubbed : << u[1], u[2], u[3] >> = << "T1", "o1", "h1" >>
    /\ Len(invoked) = 1 /\ invoked[1].handler = "h2"

\* The receive loop holds a frame on the Response route / on the Event route
OnResponseRoute == rpc \in {"lookup", "deliver", "closech", "delete"}
OnEventRoute == rpc = "event"

\* C35: every received frame takes exactly one of three routes.  A frame the loop
\* holds on the Response route passes the Response test, one it holds on the Event
\* route passes the Event test and not the Response test (so a frame with both shapes
\* is handled as a Response only), and any other frame is not held at all; a value is
\* sent on a caller's channel only on the Response route, an event is put on eChan only
\* on the Event route, and a handler is called only for an event taken from eChan.
C35_ExactlyOneRoute ==
    /\ [](/\ OnResponseRoute => (cur.json /\ Response_unmarshal(cur))
          /\ OnEventRoute => (cur.json /\ Event_unmarshal(cur) /\ ~Response_unmarshal(cur))
          /\ cur \in BothShapesFrames => OnResponseRoute)
    /\ [][ /\ (rpc = "recv" /\ rpc' # "recv") => rpc' \in {"lookup", "event", "signal"}
           /\ (\E n \in DOMAIN chans : chans'[n].sent > chans[n].sent) =>
                 (rpc = "deliver" /\ eChan' = eChan /\ invoked' = invoked)
           /\ Len(eChan') > Len(eChan) =>
                 (OnEventRoute /\ eChan' = Append(eChan, cur) /\ out' = out /\ chans' = chans)
           /\ InvokeStep =>
                 (epc = "handlers" /\ Event_unmarshal(ecur) /\ ~Response_unmarshal(ecur)) ]_vars

\* A frame that is a Response and an Event at once has been delivered to the caller
\* of request 1, while a callback is registered for the event it names; no handler
\* has been called
C35_Witness ==
    /\ rpc = "closech"
    /\ cur \in BothShapesFrames
    /\ cpc["c1"] = "got"
    /\ out["c1"] = ResponseOf(cur)
    /\ CallbackOf("T1", "o1", "h1") # {}
    /\ invoked = << >>
    /\ eChan = << >>

\* C36: whenever a value is available on the Dead channel, IsDead is already true (so
\* that an observer who receives the signal and then calls Request gets the
\* ConnectionLost short-circuit), on the read-failure and on the write-failure path.
C36_DeadImpliesIsDead == Dead > 0 => IsDead

\* C37: a Request call that takes the dead-connection short-circuit changes no shared
\* state: the id counter, the pending-Call map and its channels, SessionId, the
\* subscription registry and the liveness flag and signal are after it as before, and
\* the envelope is as the caller built it, with no new id.
C37_DeadCallChangesNothing ==
    [][ \A c \in Callers : DeadCall(c) =>
          /\ clientId' = clientId
          /\ clients' = clients
          /\ chans' = chans
          /\ SessionId' = SessionId
          /\ subscribers' = subscribers
          /\ IsDead' = IsDead /\ Dead' = Dead
          /\ req'[c] \in Envelopes
          /\ reqId'[c] = 0
          /\ \A d \in Callers \ {c} : req'[d] = req[d] /\ ret'[d] = ret[d] /\ cpc'[d] = cpc[d] ]_vars

\* A call has taken the short-circuit while an earlier call, with id 1, is still in the
\* pending-Call map
C37_Witness ==
    \E c, d \in Callers :
        /\ c # d
        /\ IsDead
        /\ cpc[c] = "await" /\ ret[c].kind = "err"
        /\ Pending(d) /\ IdOf(d) = 1 /\ 1 \in DOMAIN clients
        /\ clientId = 1

\* C38: after the receive loop fails, eChan is closed, by the loop as it terminates and
\* so exactly once and with no send after the close, the events put on it before are
\* all taken and dispatched, and the handleEvents task terminates; this in every
\* interleaving with Request calls whose write fails.
C38_EventChannelClosedAndDrained ==
    /\ [](eClosed => rpc = "done")
    /\ (rpc = "signal") ~> ((eClosed /\ eChan = << >> /\ epc = "done") \/ panicked)

=============================================================================
